---- MODULE Spec2Model ----
(***************************************************************************)
(* A model of the zombie AI of suroi-zombie-mode: the per-agent behaviour  *)
(* state machine (server/src/zombies/zombieAI.ts), the zombie entity that  *)
(* owns it (zombiePlayer.ts), the LOD scheduler and the manager's          *)
(* configuration check (zombieManager.ts).                                 *)
(*                                                                         *)
(* Units.  Lengths and coordinates are integers in tenths of a game unit   *)
(* (attackRange 2.5 is 25), so that every range of the source is an        *)
(* integer.  Directions used for steering are integers in hundredths.      *)
(* Times are milliseconds.  Evolution multipliers are in tenths (1.3 is    *)
(* 13).                                                                    *)
(***************************************************************************)
EXTENDS Integers, Sequences, FiniteSets, TLC

(***************************************************************************)
(* Bounds of the model (not program constants).                            *)
(***************************************************************************)
\* The clock advances at most this many quarter seconds past StartTime.
MaxQuarters == 3
\* The same, in the specification of the LOD scheduler.
MaxLODQuarters == 6
\* The zombie is damaged or evolved at most this many times.
MaxEvents == 1
\* The clock of the specification of the damage handler advances at most
\* this many seconds past StartTime.
MaxDamageSeconds == 3
\* The clocks of the specifications of the agent's body and of circling
\* advance at most this many seconds past StartTime.
MaxBodySeconds == 5
MaxCircleSeconds == 8
\* The clock of the specification of stuck detection advances at most this
\* many half seconds past StartTime.
MaxStillHalves == 9

(***************************************************************************)
(* ZombieAIConstants (zombieTypes.ts), lengths in tenths of a unit.        *)
(***************************************************************************)
pathfindingUpdateInterval == 500
targetSwitchCooldown == 2000
wanderRadius == 200
stuckThreshold == 10
stuckTimeout == 3000
groupRadius == 100
aggroTimeout == 10000
separationDistance == 35
circlingRadius == 40
personalSpace == 20
circlingTimeout == 5000
packSwitchCooldown == 1000
\* the cooldown between state changes the issue list asks for
stateChangeCooldown == 500
\* fleeHealthThreshold 0.2, as a fraction FleeNum / FleeDen
FleeNum == 1
FleeDen == 5
\* avoidanceForce 0.8 and circlingSpeed 0.3, in hundredths
avoidanceForce == 80
circlingSpeed == 30
\* the deadzone of getCurrentState, 0.1, in hundredths
moveThreshold == 10

(***************************************************************************)
(* ZombieAIState (zombieAI.ts, enum).                                      *)
(***************************************************************************)
Idle == "Idle"
Wandering == "Wandering"
Hunting == "Hunting"
Attacking == "Attacking"
Fleeing == "Fleeing"
Grouping == "Grouping"
ZombieAIState == {Idle, Wandering, Hunting, Attacking, Fleeing, Grouping}

\* An unset optional reference (undefined) and an unset optional Vector.
NoPlayer == "none"
NoVec == <<>>

(***************************************************************************)
(* Zombie type table (zombieTypes.ts), lengths in tenths.                  *)
(***************************************************************************)
ZombieTypeIds == {"basic_zombie", "fast_runner", "tank_zombie"}

ZombieTypes(id) ==
    CASE id = "basic_zombie" -> [health |-> 120, damage |-> 25, attackRange |-> 25,
                                 detectionRange |-> 150, packBehavior |-> TRUE]
      [] id = "fast_runner"  -> [health |-> 80, damage |-> 20, attackRange |-> 20,
                                 detectionRange |-> 200, packBehavior |-> FALSE]
      [] id = "tank_zombie"  -> [health |-> 200, damage |-> 40, attackRange |-> 30,
                                 detectionRange |-> 120, packBehavior |-> TRUE]

\* EvolutionMultipliers.health, the multipliers the manager passes to evolve(),
\* in tenths.
EvolutionMultipliers == {10, 13, 16, 20}

\* an evolve() that scales the current maximum instead of the base health
EvolveZombieCumulative(z, m) ==
    LET newMaxHealth == (z.maxHealth * m) \div 10
    IN  [z EXCEPT !.evolutionMultiplier = m,
                  !.maxHealth = newMaxHealth,
                  !.health = (newMaxHealth * z.health) \div z.maxHealth]
\* ZombiePlayer.evolve(multiplier) on the fields of the zombie: the maximum is
\* recomputed from _baseStats.health and the health keeps its ratio
EvolveZombie(z, m) ==
    LET newMaxHealth == (ZombieTypes(z.zombieType).health * m) \div 10
    IN  [z EXCEPT !.evolutionMultiplier = m,
                  !.maxHealth = newMaxHealth,
                  !.health = (newMaxHealth * z.health) \div z.maxHealth]
\* ZombiePlayer.getZombieDamage() of a zombie with these fields
ZombieDamage(z) == (ZombieTypes(z.zombieType).damage * z.evolutionMultiplier) \div 10

(***************************************************************************)
(* Vector arithmetic (Vec, Geometry of @common/utils).                     *)
(***************************************************************************)
Abs(n) == IF n < 0 THEN -n ELSE n
Sign(n) == IF n < 0 THEN -1 ELSE IF n > 0 THEN 1 ELSE 0
Min(a, b) == IF a < b THEN a ELSE b
Max(a, b) == IF a > b THEN a ELSE b

VecAdd(a, b) == <<a[1] + b[1], a[2] + b[2]>>
VecSub(a, b) == <<a[1] - b[1], a[2] - b[2]>>
\* Vec.scale by the rational num / den, rounded toward zero
VecScale(a, num, den) ==
    <<Sign(a[1] * num) * (Abs(a[1] * num) \div den),
      Sign(a[2] * num) * (Abs(a[2] * num) \div den)>>
LenSq(a) == a[1] * a[1] + a[2] * a[2]
DistSq(a, b) == LenSq(VecSub(a, b))

RECURSIVE SqrtIter(_, _, _)
SqrtIter(n, lo, hi) ==
    IF lo >= hi THEN lo
    ELSE LET mid == (lo + hi + 1) \div 2
         IN  IF mid * mid <= n THEN SqrtIter(n, mid, hi)
                               ELSE SqrtIter(n, lo, mid - 1)
\* floor of the square root
ISqrt(n) == SqrtIter(n, 0, 46340)

\* Vec.len of a vector in tenths, in tenths (rounded down)
VecLen(a) == ISqrt(LenSq(a))

\* Geometry.distance(a, b) <= r and < r, for r in the unit of a and b: exact
WithinDist(a, b, r) == DistSq(a, b) <= r * r
CloserThan(a, b, r) == DistSq(a, b) < r * r

\* Vec.normalize of a vector given in any unit: the unit vector in hundredths.
\* A zero vector normalizes to the zero vector.  Long vectors are first
\* brought under 400 so that the intermediate products stay in range.
RECURSIVE Shrink(_)
Shrink(a) == IF Abs(a[1]) > 400 \/ Abs(a[2]) > 400
             THEN Shrink(<<Sign(a[1]) * (Abs(a[1]) \div 4), Sign(a[2]) * (Abs(a[2]) \div 4)>>)
             ELSE a
Normalize(v) ==
    LET a == Shrink(v)
        l == LenSq(a)
    IN  IF l = 0 THEN <<0, 0>>
        ELSE <<Sign(a[1]) * ISqrt((a[1] * a[1] * 10000) \div l),
               Sign(a[2]) * ISqrt((a[2] * a[2] * 10000) \div l)>>

\* a position moved by `dist` tenths along the unit vector n (hundredths)
Along(pos, n, dist) == VecAdd(pos, VecScale(n, dist, 100))


(***************************************************************************)
(* The world the agent reads: the game clock, the living players, the      *)
(* other zombie of game.zombies, and the zombie that owns the AI.          *)
(***************************************************************************)
Players == {"p1", "p2"}
\* game.livingPlayers is iterated in insertion order
PlayerOrder == <<"p1", "p2">>

\* game.now when the agent is created: the game has run for longer than any
\* timeout of the agent, so that every timer of a new agent has elapsed
StartTime == 2 * aggroTimeout

\* what the clock may advance by between two calls from the host
TickSteps == {250, 500}

\* positions the host may give the players: inside every attack range, inside
\* every detection range but no attack range, inside the detection range of an
\* evolved basic zombie only, and out of sight
PlayerPositions(p) ==
    IF p = "p1" THEN {<<15, 0>>, <<0, 28>>, <<170, 0>>, <<2000, 0>>}
                ELSE {<<0, -100>>, <<0, -2000>>}
\* what the other zombie may be found doing
MateConfigs ==
    {[dead |-> TRUE, position |-> <<15, 0>>, currentState |-> Idle, target |-> NoPlayer],
     [dead |-> FALSE, position |-> <<15, 0>>, currentState |-> Hunting, target |-> "p1"]}
\* random offsets setWanderTarget may draw: length in 5 .. wanderRadius
WanderOffsets == {<<50, 0>>}
\* whether the grid holds an obstacle around the probe point of findPathToTarget
Obstacles == {FALSE}
\* the types the zombie may be spawned as
SpawnTypes == {"basic_zombie", "fast_runner"}
\* the multipliers evolve() is called with
EvolveTo == {13}
\* health the host may leave the zombie with, as a percentage of maxHealth
HealthPercents == {15, 100}

VARIABLES
    now,        \* game.now
    events,     \* history: the damage and evolution events so far
    updated,    \* whether the game loop has run the zombie's update() in this tick
    players,    \* players[p] = [position, alive]: alive iff p is in game.livingPlayers
    mate,       \* the other member of game.zombies, with the AI fields the pack reads
    zombie,     \* the ZombiePlayer: type, position, health, evolution multiplier
    ai,         \* the fields of its ZombieAI
    out,        \* history: the AIState returned, if the last handler was getCurrentState()
    obs,        \* history: what the last handler did (not program state)
    lod,        \* the LOD fields of the agent
    mgr         \* the manager under construction and the game it registers with

vars == <<now, events, updated, players, mate, zombie, ai, out, obs, lod, mgr>>

ZType == ZombieTypes(zombie.zombieType)

\* ZombiePlayer.getDetectionRange(): detectionRange * multiplier (in hundredths
\* of a unit, the multiplier being in tenths); getAttackRange(): attackRange.
\* (first: a getDetectionRange() that reads the attack range of the type)
GetDetectionRangeOfAttack == ZType.attackRange * zombie.evolutionMultiplier
GetDetectionRange100 == ZType.detectionRange * zombie.evolutionMultiplier
\* a getAttackRange() that scales with the evolution multiplier as well
GetAttackRangeScaled == (ZType.attackRange * zombie.evolutionMultiplier) \div 10
GetAttackRange == ZType.attackRange

(***************************************************************************)
(* ZombieAI, as operators on the record f of its fields.  While a handler  *)
(* runs, f also carries history fields: calls, the setState calls made so  *)
(* far; entry, the state in which updateState was entered, with what it    *)
(* found (nearest, detected, inRange); pathRan, whether updatePathfinding  *)
(* recomputed the waypoint; wandered, the number of setWanderTarget calls. *)
(***************************************************************************)
AIFields == {"currentState", "target", "targetPosition", "intermediateTarget",
             "lastPathUpdate", "lastTargetSwitch", "wanderTarget",
             "stuckPosition", "stuckTime", "circlingStartTime", "aggroUntil",
             "lastPosition"}
Fields(f) == [k \in AIFields |-> f[k]]
Frame(a) == a @@ [calls |-> <<>>, entry |-> "none", nearest |-> NoPlayer,
                  detected |-> FALSE, inRange |-> FALSE, pathRan |-> FALSE,
                  wandered |-> 0]

\* new ZombieAI(zombie)
NewAI(pos) ==
    [currentState |-> Idle, target |-> NoPlayer, targetPosition |-> NoVec,
     intermediateTarget |-> NoVec, lastPathUpdate |-> 0, lastTargetSwitch |-> 0,
     wanderTarget |-> NoVec, stuckPosition |-> NoVec, stuckTime |-> 0,
     circlingStartTime |-> 0, aggroUntil |-> 0, lastPosition |-> pos]

\* a setState() that leaves targetPosition alone
SetStateKeepingPosition(f, newState, target, by) ==
    [f EXCEPT !.currentState = newState,
              !.target = target,
              !.lastTargetSwitch = IF target # NoPlayer THEN now ELSE @,
              !.calls = Append(@, [from |-> f.currentState, to |-> newState, by |-> by])]

\* setState(newState, target?); by names the caller, for the history only
SetState(f, newState, target, by) ==
    [f EXCEPT !.currentState = newState,
              !.target = target,
              !.targetPosition = IF target # NoPlayer THEN players[target].position ELSE @,
              !.lastTargetSwitch = IF target # NoPlayer THEN now ELSE @,
              !.calls = Append(@, [from |-> f.currentState, to |-> newState, by |-> by])]

\* findNearestPlayer(): the first player of livingPlayers at the least distance
RECURSIVE NearestFrom(_, _)
NearestFrom(i, best) ==
    IF i > Len(PlayerOrder) THEN best
    ELSE LET p == PlayerOrder[i]
         IN  IF players[p].alive
                /\ (best = NoPlayer
                    \/ DistSq(zombie.position, players[p].position)
                         < DistSq(zombie.position, players[best].position))
             THEN NearestFrom(i + 1, p)
             ELSE NearestFrom(i + 1, best)

\* a findNearestPlayer() that returns the first living player it meets
FindFirstLivingPlayer ==
    IF \E i \in 1..Len(PlayerOrder) : players[PlayerOrder[i]].alive
    THEN PlayerOrder[CHOOSE i \in 1..Len(PlayerOrder) :
                        /\ players[PlayerOrder[i]].alive
                        /\ \A j \in 1..(i - 1) : ~players[PlayerOrder[j]].alive]
    ELSE NoPlayer

\* findNearestPlayer()
FindNearestPlayer == NearestFrom(1, NoPlayer)

\* canDetectPlayer(player): distance <= zombie.getDetectionRange()
CanDetectPlayer(p) ==
    100 * DistSq(zombie.position, players[p].position)
        <= GetDetectionRange100 * GetDetectionRange100

\* isInAttackRange(player): distance <= zombie.getAttackRange()
IsInAttackRange(p) == WithinDist(zombie.position, players[p].position, GetAttackRange)

\* setWanderTarget(), off being the random polar offset drawn
SetWanderTarget(f, off) ==
    [f EXCEPT !.wanderTarget = VecAdd(zombie.position, off),
              !.targetPosition = VecAdd(zombie.position, off),
              !.wandered = @ + 1]

\* the zombies of game.zombies other than this one, alive, within groupRadius
MateNearby == ~mate.dead /\ WithinDist(zombie.position, mate.position, groupRadius)

\* findGroupTarget()
FindGroupTarget(f, off) ==
    IF MateNearby THEN [f EXCEPT !.targetPosition = mate.position]
                  ELSE SetWanderTarget(f, off)

\* reachedTarget(target): distance < 2
ReachedTarget(t) == CloserThan(zombie.position, t, 20)

\* a checkIfStuck() that recovers as soon as stuckTimeout is reached
CheckIfStuckAtTimeout(f, off) ==
    IF CloserThan(zombie.position, f.lastPosition, stuckThreshold)
    THEN IF f.stuckPosition = NoVec
         THEN [f EXCEPT !.stuckPosition = zombie.position, !.stuckTime = now]
         ELSE IF now - f.stuckTime >= stuckTimeout
              THEN [SetWanderTarget(f, off) EXCEPT !.stuckPosition = NoVec]
              ELSE f
    ELSE [f EXCEPT !.stuckPosition = NoVec]

\* checkIfStuck()
CheckIfStuck(f, off) ==
    IF CloserThan(zombie.position, f.lastPosition, stuckThreshold)
    THEN IF f.stuckPosition = NoVec
         THEN [f EXCEPT !.stuckPosition = zombie.position, !.stuckTime = now]
         ELSE IF now - f.stuckTime > stuckTimeout
              THEN [SetWanderTarget(f, off) EXCEPT !.stuckPosition = NoVec]
              ELSE f
    ELSE [f EXCEPT !.stuckPosition = NoVec]

\* getCirclingDirection(targetPosition): a unit vector, in hundredths
GetCirclingDirection(tpos) ==
    LET toTarget == VecSub(tpos, zombie.position)
        n == Normalize(toTarget)
        perp == <<-n[2], n[1]>>
    IN  IF LenSq(toTarget) = 0 THEN <<100, 0>>
        ELSE Normalize(VecAdd(VecScale(n, 3, 10), VecScale(perp, 7, 10)))

\* getTacticalAttackPosition(target).  When closer than separationDistance it
\* returns the circling direction itself (a unit vector) as the position.
GetTacticalAttackPosition(p) ==
    LET tpos == players[p].position
        direction == VecSub(tpos, zombie.position)
    IN  IF CloserThan(zombie.position, tpos, separationDistance)
        THEN VecScale(GetCirclingDirection(tpos), 1, 10)
        ELSE IF LenSq(direction) = 0
             THEN VecAdd(zombie.position, <<10, 0>>)
             ELSE Along(tpos, Normalize(direction), -((GetAttackRange * 8) \div 10))

\* findPathToTarget(target); obstacle: the grid holds a colliding obstacle
\* around the probe point
FindPathToTarget(t, obstacle) ==
    LET direction == VecSub(t, zombie.position)
        n == Normalize(direction)
        perp == <<-n[2], n[1]>>
    IN  IF LenSq(direction) < 25 THEN t
        ELSE IF obstacle
             THEN Along(zombie.position, Normalize(VecAdd(n, VecScale(perp, 1, 2))), 30)
             ELSE IF LenSq(direction) <= 900 THEN t
                  ELSE Along(zombie.position, n, 30)

\* coordinateWithPack()
CoordinateWithPack(f) ==
    IF ~ZType.packBehavior \/ ~MateNearby THEN f
    ELSE IF mate.target # NoPlayer /\ mate.currentState = Hunting
            /\ (f.target = NoPlayer \/ now - f.lastTargetSwitch > packSwitchCooldown)
         THEN SetState(f, Hunting, mate.target, "pack")
         ELSE f

\* updatePathfinding().  The noisy fallback waypoint of its last lines is
\* never taken: findPathToTarget always returns a point.
UpdatePathfinding(f, obstacle) ==
    IF f.targetPosition = NoVec THEN f
    ELSE LET g == [f EXCEPT !.intermediateTarget = FindPathToTarget(f.targetPosition, obstacle)]
         IN  IF ZType.packBehavior THEN CoordinateWithPack(g) ELSE g


(***************************************************************************)
(* updateState(): one operator per case of its switch.  np is the result   *)
(* of findNearestPlayer(), off the random offset a wander target would use.*)
(***************************************************************************)
IsAggro(f) == now < f.aggroUntil

\* an Idle case that attacks at once a player it finds in attack range
IdleCaseAttackingAtOnce(f, np) ==
    IF np # NoPlayer /\ CanDetectPlayer(np)
    THEN SetState(f, IF IsInAttackRange(np) THEN Attacking ELSE Hunting, np, "tick")
    ELSE IF ZType.packBehavior THEN SetState(f, Grouping, NoPlayer, "tick")
    ELSE SetState(f, Wandering, NoPlayer, "tick")

IdleCase(f, np) ==
    IF np # NoPlayer /\ CanDetectPlayer(np) THEN SetState(f, Hunting, np, "tick")
    ELSE IF ZType.packBehavior THEN SetState(f, Grouping, NoPlayer, "tick")
    ELSE SetState(f, Wandering, NoPlayer, "tick")

\* a Wandering case that hunts the nearest player whether it detects it or not
WanderingCaseHuntingUnseen(f, np, off) ==
    IF np # NoPlayer THEN SetState(f, Hunting, np, "tick")
    ELSE IF f.wanderTarget = NoVec \/ ReachedTarget(f.wanderTarget)
         THEN SetWanderTarget(f, off)
         ELSE f

WanderingCase(f, np, off) ==
    IF np # NoPlayer /\ CanDetectPlayer(np) THEN SetState(f, Hunting, np, "tick")
    ELSE IF f.wanderTarget = NoVec \/ ReachedTarget(f.wanderTarget)
         THEN SetWanderTarget(f, off)
         ELSE f

\* a Hunting case that goes Idle on losing detection, aggressive or not
HuntingCaseForgettingAggro(f, np) ==
    IF np = NoPlayer \/ ~CanDetectPlayer(np)
    THEN SetState(f, Idle, NoPlayer, "tick")
    ELSE IF IsInAttackRange(np) THEN SetState(f, Attacking, np, "tick")
    ELSE [f EXCEPT !.target = np, !.targetPosition = players[np].position]

\* updateState(), case Hunting
HuntingCase(f, np) ==
    IF np = NoPlayer \/ ~CanDetectPlayer(np)
    THEN SetState(f, IF IsAggro(f) THEN Wandering ELSE Idle, NoPlayer, "tick")
    ELSE IF IsInAttackRange(np) THEN SetState(f, Attacking, np, "tick")
    ELSE [f EXCEPT !.target = np, !.targetPosition = players[np].position]

\* an Attacking case that holds on to a player who has left the attack range
AttackingCaseHoldingOn(f, np) ==
    IF np = NoPlayer THEN SetState(f, Hunting, np, "tick")
    ELSE [f EXCEPT !.target = np, !.targetPosition = GetTacticalAttackPosition(np)]
\* updateState(), case Attacking
AttackingCase(f, np) ==
    IF np = NoPlayer \/ ~IsInAttackRange(np) THEN SetState(f, Hunting, np, "tick")
    ELSE [f EXCEPT !.target = np, !.targetPosition = GetTacticalAttackPosition(np)]

\* a Fleeing case that also ends at a health ratio equal to the threshold
FleeingCaseAtThreshold(f) ==
    IF zombie.health * FleeDen >= zombie.maxHealth * FleeNum
    THEN SetState(f, Idle, NoPlayer, "tick")
    ELSE f

\* zombie.health / zombie.maxHealth > fleeHealthThreshold
FleeingCase(f) ==
    IF zombie.health * FleeDen > zombie.maxHealth * FleeNum
    THEN SetState(f, Idle, NoPlayer, "tick")
    ELSE f

GroupingCase(f, np, off) ==
    IF np # NoPlayer /\ CanDetectPlayer(np) THEN SetState(f, Hunting, np, "tick")
    ELSE FindGroupTarget(f, off)

UpdateState(f0, off) ==
    LET np == FindNearestPlayer
        f == [f0 EXCEPT !.entry = f0.currentState,
                        !.nearest = np,
                        !.detected = np # NoPlayer /\ CanDetectPlayer(np),
                        !.inRange = np # NoPlayer /\ IsInAttackRange(np)]
    IN  CASE f.currentState = Idle      -> IdleCase(f, np)
          [] f.currentState = Wandering -> WanderingCase(f, np, off)
          [] f.currentState = Hunting   -> HuntingCase(f, np)
          [] f.currentState = Attacking -> AttackingCase(f, np)
          [] f.currentState = Fleeing   -> FleeingCase(f)
          [] f.currentState = Grouping  -> GroupingCase(f, np, off)

\* the interval update() waits between two pathfinding runs
GetPathfindingInterval == pathfindingUpdateInterval

\* an update() that checks for being stuck only when pathfinding is due
UpdateAIGatingStuck(a, off1, off2, obstacle) ==
    LET due == now - a.lastPathUpdate > GetPathfindingInterval
        f1 == IF due THEN CheckIfStuck(Frame(a), off1) ELSE Frame(a)
        f2 == IF due
              THEN [UpdatePathfinding(f1, obstacle) EXCEPT
                       !.lastPathUpdate = now,
                       !.pathRan = f1.targetPosition # NoVec]
              ELSE f1
        f3 == UpdateState(f2, off2)
    IN  [f3 EXCEPT !.lastPosition = zombie.position]

\* update(): off1 and off2 are the random draws of the stuck recovery and of
\* the state update
UpdateAI(a, off1, off2, obstacle) ==
    LET f1 == CheckIfStuck(Frame(a), off1)
        f2 == IF now - f1.lastPathUpdate > GetPathfindingInterval
              THEN [UpdatePathfinding(f1, obstacle) EXCEPT
                       !.lastPathUpdate = now,
                       !.pathRan = f1.targetPosition # NoVec]
              ELSE f1
        f3 == UpdateState(f2, off2)
    IN  [f3 EXCEPT !.lastPosition = zombie.position]

\* an onTakeDamage(source) that rebinds to the source whatever the cooldown
OnTakeDamageAlwaysRebinding(a, src, h) ==
    LET f1 == [Frame(a) EXCEPT !.aggroUntil = now + aggroTimeout]
        f2 == SetState(f1, Hunting, src, "damage")
    IN  IF h * FleeDen < zombie.maxHealth * FleeNum
        THEN [SetState(f2, Fleeing, NoPlayer, "damage") EXCEPT
                 !.targetPosition =
                     Along(zombie.position,
                           Normalize(VecSub(zombie.position, players[src].position)), 200)]
        ELSE f2

\* onTakeDamage(source), run after the host has lowered zombie.health to h
OnTakeDamage(a, src, h) ==
    LET f1 == [Frame(a) EXCEPT !.aggroUntil = now + aggroTimeout]
        f2 == IF f1.target = NoPlayer \/ now - f1.lastTargetSwitch > targetSwitchCooldown
              THEN SetState(f1, Hunting, src, "damage")
              ELSE f1
    IN  IF h * FleeDen < zombie.maxHealth * FleeNum
        THEN [SetState(f2, Fleeing, NoPlayer, "damage") EXCEPT
                 !.targetPosition =
                     Along(zombie.position,
                           Normalize(VecSub(zombie.position, players[src].position)), 200)]
        ELSE f2

\* onEvolution(multiplier), the multiplier in tenths
OnEvolution(a, m) == [a EXCEPT !.aggroUntil = now + (aggroTimeout * m) \div 10]

(***************************************************************************)
(* getCurrentState() and the steering it applies.  Directions are in       *)
(* hundredths of a unit.  The frame carries the direction being built as   *)
(* dir.                                                                    *)
(***************************************************************************)
\* getNearbyEntities(): within max(separationDistance, personalSpace) * 1.5
InCheckRadius(pos) ==
    4 * DistSq(zombie.position, pos)
        <= (3 * Max(separationDistance, personalSpace)) * (3 * Max(separationDistance, personalSpace))

\* distance in hundredths of a unit
Dist100(a, b) == ISqrt(100 * DistSq(a, b))

\* Vec.lerp(a, b, t), t in hundredths
VecLerp(a, b, t) == VecAdd(a, VecScale(VecSub(b, a), t, 100))

\* the body of the loop over nearbyEntities.players, for player p
AvoidPlayer(f, p, off) ==
    LET ppos == players[p].position
        d == Dist100(zombie.position, ppos)
        force == (avoidanceForce * (10 * separationDistance - d)) \div (10 * separationDistance)
        away == Normalize(VecSub(zombie.position, ppos))
        f1 == [f EXCEPT !.dir = VecAdd(@, VecScale(away, force, 100))]
    IN  IF ~CloserThan(zombie.position, ppos, separationDistance) THEN f
        ELSE IF CloserThan(zombie.position, ppos, circlingRadius) /\ f.currentState = Attacking
             THEN LET start == IF f1.circlingStartTime = 0 THEN now ELSE f1.circlingStartTime
                  IN  IF now - start > circlingTimeout
                      THEN SetWanderTarget([f1 EXCEPT !.circlingStartTime = 0], off)
                      ELSE [f1 EXCEPT !.circlingStartTime = start,
                                      !.dir = VecLerp(@, GetCirclingDirection(ppos), circlingSpeed)]
             ELSE [f1 EXCEPT !.circlingStartTime = 0]

RECURSIVE AvoidPlayersFrom(_, _, _)
AvoidPlayersFrom(f, i, off) ==
    IF i > Len(PlayerOrder) THEN f
    ELSE LET p == PlayerOrder[i]
         IN  IF players[p].alive /\ InCheckRadius(players[p].position)
             THEN AvoidPlayersFrom(AvoidPlayer(f, p, off), i + 1, off)
             ELSE AvoidPlayersFrom(f, i + 1, off)

\* the loop over nearbyEntities.zombies
AvoidZombies(f) ==
    LET d == Dist100(zombie.position, mate.position)
        force == (50 * (10 * personalSpace - d)) \div (10 * personalSpace)
        away == Normalize(VecSub(zombie.position, mate.position))
    IN  IF ~mate.dead /\ InCheckRadius(mate.position)
           /\ CloserThan(zombie.position, mate.position, personalSpace)
        THEN [f EXCEPT !.dir = VecAdd(@, VecScale(away, force, 100))]
        ELSE f

\* applyCollisionAvoidance(baseDirection)
ApplyCollisionAvoidance(f, base, off) ==
    LET g == AvoidZombies(AvoidPlayersFrom(f @@ [dir |-> base], 1, off))
    IN  IF LenSq(g.dir) > 10000 THEN [g EXCEPT !.dir = Normalize(g.dir)] ELSE g

\* flags that are raised by any non-zero component, without the deadzone
MovementWithoutDeadzone(dir) ==
    [right |-> dir[1] > 0, left |-> dir[1] < 0,
     down |-> dir[2] > 0, up |-> dir[2] < 0]
\* the AIMovement flags of a steered direction
Movement(dir) ==
    [right |-> dir[1] > moveThreshold, left |-> dir[1] < -moveThreshold,
     down |-> dir[2] > moveThreshold, up |-> dir[2] < -moveThreshold]

NoMovement == [right |-> FALSE, left |-> FALSE, down |-> FALSE, up |-> FALSE]

\* getCurrentState(): the fields it leaves, the AIState it returns, and for
\* the history the number of setWanderTarget calls it made and the steered
\* direction the flags were taken from
GetCurrentState(a, off) ==
    LET g == IF a.targetPosition = NoVec
             THEN Frame(a) @@ [dir |-> <<0, 0>>]
             ELSE ApplyCollisionAvoidance(Frame(a),
                      VecScale(VecSub(a.targetPosition, zombie.position), 10, 1), off)
    IN  [fields |-> Fields(g), wandered |-> g.wandered, dir |-> g.dir,
         result |-> [movement |-> IF a.targetPosition = NoVec THEN NoMovement
                                  ELSE Movement(g.dir),
                     target |-> g.targetPosition,
                     shouldAttack |-> g.currentState = Attacking /\ g.target # NoPlayer,
                     currentState |-> g.currentState]]


(***************************************************************************)
(* The LOD scheduler of the agent.  Distances are kept squared (tenths     *)
(* squared), which orders them as the distances themselves; InfiniteDistSq *)
(* stands for Infinity.                                                    *)
(***************************************************************************)
InfiniteDistSq == 46340 * 46340
lodUpdateInterval == 1000

\* lodDistanceThresholds high / medium / low, in tenths
LodThresholdHigh == 250
LodThresholdMedium == 500
LodThresholdLow == 750

NewLOD == [lodLevel |-> 0, lastLODUpdate |-> 0, distanceToNearestPlayerSq |-> InfiniteDistSq]

\* the level of a (squared) distance under the threshold table
LODLevelOf(dsq) ==
    IF dsq = InfiniteDistSq THEN 3
    ELSE IF dsq <= LodThresholdHigh * LodThresholdHigh THEN 0
    ELSE IF dsq <= LodThresholdMedium * LodThresholdMedium THEN 1
    ELSE IF dsq <= LodThresholdLow * LodThresholdLow THEN 2
    ELSE 3

\* an LOD recompute that is due at every call
LODDueAlways(l) == now - l.lastLODUpdate >= 0

\* whether update() recomputes the LOD at this call
LODDue(l) == now - l.lastLODUpdate >= lodUpdateInterval

\* updateLODLevel()
UpdateLODLevel(l) ==
    LET np == FindNearestPlayer
        dsq == IF np = NoPlayer THEN InfiniteDistSq
               ELSE DistSq(zombie.position, players[np].position)
    IN  [lodLevel |-> LODLevelOf(dsq), lastLODUpdate |-> now,
         distanceToNearestPlayerSq |-> dsq]

(***************************************************************************)
(* ZombieManager's constructor and validateLODConfiguration().             *)
(***************************************************************************)
\* candidate ZombieAIConstants.lodDistanceThresholds / lodUpdateIntervals
ThresholdValues == {25, 50, 75, 100}
IntervalValues == {0, 500, 5000}
LODConfigs ==
    [high : ThresholdValues, medium : ThresholdValues, low : ThresholdValues,
     minimal : ThresholdValues, ihigh : IntervalValues, iminimal : IntervalValues,
     imedium : {-1000, 1000}, ilow : {2000}]

\* validateLODConfiguration(): "ok", or the Error it throws
ValidateLODConfiguration(c) ==
    IF c.high >= c.medium \/ c.medium >= c.low \/ c.low >= c.minimal
    THEN "thresholds"
    ELSE IF c.ihigh <= 0 \/ c.imedium <= 0 \/ c.ilow <= 0 \/ c.iminimal <= 0
    THEN "intervals"
    ELSE "ok"

\* a constructor that registers with the game before it validates
ConstructManagerAttachingFirst(m) ==
    LET v == ValidateLODConfiguration(m.config)
    IN  IF v # "ok"
        THEN [m EXCEPT !.phase = "thrown", !.error = v,
                       !.gameZombies = TRUE, !.gameZombieManager = TRUE]
        ELSE [m EXCEPT !.phase = "constructed", !.error = "none",
                       !.gameZombies = TRUE, !.gameZombieManager = TRUE]

\* new ZombieManager(game): validation first, then the two properties of game
ConstructManager(m) ==
    LET v == ValidateLODConfiguration(m.config)
    IN  IF v # "ok"
        THEN [m EXCEPT !.phase = "thrown", !.error = v]
        ELSE [m EXCEPT !.phase = "constructed", !.error = "none",
                       !.gameZombies = TRUE, !.gameZombieManager = TRUE]

NoManager(c) == [phase |-> "new", error |-> "none", config |-> c,
                 gameZombies |-> FALSE, gameZombieManager |-> FALSE]
\* the configuration CONTRIBUTING.md documents
DocumentedConfig == [high |-> 25, medium |-> 50, low |-> 75, minimal |-> 100,
                     ihigh |-> 500, imedium |-> 1000, ilow |-> 2000, iminimal |-> 5000]

(***************************************************************************)
(* History kept for the properties: what the last handler did.             *)
(***************************************************************************)
\* the calls of setState that changed the state
Changes(calls) == {i \in 1..Len(calls) : calls[i].from # calls[i].to}
\* those not made by onTakeDamage
TickChanges(calls) == {i \in Changes(calls) : calls[i].by # "damage"}

\* op: the handler; start: the state it began in; changedAt: when the state
\* last changed other than by damage; pathAt: when the waypoint was last
\* recomputed and pathLevel the LOD level it was recomputed at; prev...:
\* these, and the LOD fields, as they were before
Obs(op, a, f) ==
    [op |-> op, calls |-> f.calls, start |-> a.currentState, entry |-> f.entry,
     nearest |-> f.nearest, detected |-> f.detected, inRange |-> f.inRange,
     pathRan |-> f.pathRan,
     prevPathAt |-> obs.pathAt,
     pathAt |-> IF f.pathRan THEN now ELSE obs.pathAt,
     prevPathLevel |-> obs.pathLevel,
     pathLevel |-> IF f.pathRan THEN lod.lodLevel ELSE obs.pathLevel,
     prevChangedAt |-> obs.changedAt,
     changedAt |-> IF TickChanges(f.calls) # {} THEN now ELSE obs.changedAt,
     lodRan |-> FALSE, prevLOD |-> lod]

ObsEnv(op) == Obs(op, ai, Frame(ai))

NoOut == [movement |-> NoMovement, target |-> NoVec, shouldAttack |-> FALSE,
          currentState |-> "none"]

(***************************************************************************)
(* Init and the actions of the agent's specification.                      *)
(***************************************************************************)
NewZombie(t, pos) ==
    [zombieType |-> t, position |-> pos, health |-> ZombieTypes(t).health,
     maxHealth |-> ZombieTypes(t).health, evolutionMultiplier |-> 10]

FarAway == <<2000, 0>>
NoMate == [dead |-> TRUE, position |-> <<15, 0>>, currentState |-> Idle, target |-> NoPlayer]

ObsInit ==
    [op |-> "init", calls |-> <<>>, start |-> Idle, entry |-> "none",
     nearest |-> NoPlayer, detected |-> FALSE, inRange |-> FALSE,
     pathRan |-> FALSE, prevPathAt |-> 0, pathAt |-> 0,
     prevPathLevel |-> 0, pathLevel |-> 0,
     prevChangedAt |-> 0, changedAt |-> 0, lodRan |-> FALSE, prevLOD |-> NewLOD]

\* a zombie of a spawnable type has just been created at the origin; the first
\* player is out of sight, the second, if it has joined, stands at p2pos
InitWith(joins, p2pos) ==
    /\ now = StartTime
    /\ updated = FALSE
    /\ events = 0
    /\ \E joined \in joins :
           players = [p \in Players |->
                        [position |-> IF p = "p1" THEN FarAway ELSE p2pos,
                         alive |-> IF p = "p1" THEN TRUE ELSE joined]]
    /\ mate = NoMate
    /\ \E t \in SpawnTypes : zombie = NewZombie(t, <<0, 0>>)
    /\ ai = NewAI(<<0, 0>>)
    /\ out = NoOut
    /\ obs = ObsInit
    /\ lod = NewLOD
    /\ mgr = NoManager(DocumentedConfig)

\* one player in the game
Init == InitWith({FALSE}, <<0, -2000>>)
\* one or two players in the game
InitPair == InitWith(BOOLEAN, <<0, -2000>>)

\* Game.tick(): the game loop starts its next tick and sets game.now
Tick ==
    \E dt \in TickSteps :
        /\ updated
        /\ now + dt <= StartTime + MaxQuarters * 250
        /\ now' = now + dt
        /\ updated' = FALSE
        /\ obs' = ObsEnv("env")
        /\ out' = NoOut
        /\ UNCHANGED <<events, players, mate, zombie, ai, lod, mgr>>

\* a living player moves
MovePlayer ==
    \E p \in Players : \E pos \in PlayerPositions(p) :
        /\ players[p].alive
        /\ pos # players[p].position
        /\ players' = [players EXCEPT ![p].position = pos]
        /\ obs' = ObsEnv("env")
        /\ out' = NoOut
        /\ UNCHANGED <<now, updated, events, mate, zombie, ai, lod, mgr>>

\* the other zombie spawns, moves, dies, or its AI changes state and target
MateActs ==
    \E m \in MateConfigs :
        /\ m # mate
        /\ mate' = m
        /\ obs' = ObsEnv("env")
        /\ out' = NoOut
        /\ UNCHANGED <<now, updated, events, players, zombie, ai, lod, mgr>>

\* the host restores the zombie's health
Heal ==
    /\ zombie.health < zombie.maxHealth
    /\ zombie' = [zombie EXCEPT !.health = zombie.maxHealth]
    /\ obs' = ObsEnv("env")
    /\ out' = NoOut
    /\ UNCHANGED <<now, updated, events, players, mate, ai, lod, mgr>>

\* ZombieAI.update(), called once in each tick of the game loop
Update ==
    /\ ~updated
    /\ \E off1 \in WanderOffsets, off2 \in WanderOffsets, obstacle \in Obstacles :
        \E f \in {UpdateAI(ai, off1, off2, obstacle)} :
            /\ updated' = TRUE
            /\ ai' = Fields(f)
            /\ obs' = Obs("update", ai, f)
            /\ out' = NoOut
            /\ UNCHANGED <<now, events, players, mate, zombie, lod, mgr>>

\* ZombieAI.getCurrentState()
QueryState ==
    \E off \in WanderOffsets :
        \E r \in {GetCurrentState(ai, off)} :
            /\ ai' = r.fields
            /\ out' = r.result
            /\ obs' = ObsEnv("getCurrentState") @@ [dir |-> r.dir, goal |-> ai.targetPosition]
            /\ UNCHANGED <<now, updated, events, players, mate, zombie, lod, mgr>>

\* ZombiePlayer.damage(params) with a living non-zombie player as source:
\* Player.damage lowers the health, then the AI is notified
Damage ==
    \E src \in Players, pct \in HealthPercents :
        LET h == (zombie.maxHealth * pct) \div 100
            f == OnTakeDamage(ai, src, h)
        IN  /\ events < MaxEvents
            /\ players[src].alive
            /\ h <= zombie.health
            /\ events' = events + 1
            /\ zombie' = [zombie EXCEPT !.health = h]
            /\ ai' = Fields(f)
            /\ obs' = Obs("damage", ai, f)
            /\ out' = NoOut
            /\ UNCHANGED <<now, updated, players, mate, lod, mgr>>

\* ZombiePlayer.evolve(multiplier), the manager raising the evolution level
Evolve ==
    \E m \in EvolveTo :
            /\ events < MaxEvents
            /\ events' = events + 1
            /\ m > zombie.evolutionMultiplier
            /\ zombie' = EvolveZombie(zombie, m)
            /\ ai' = OnEvolution(ai, m)
            /\ obs' = ObsEnv("evolve")
            /\ out' = NoOut
            /\ UNCHANGED <<now, updated, players, mate, lod, mgr>>

Next ==
    \/ Tick
    \/ Update
    \/ MovePlayer
    \/ MateActs
    \/ Damage
    \/ Heal
    \/ Evolve

Spec == Init /\ [][Next]_vars

\* the agent among two players and its pack, under evolution
NextEvolve ==
    \/ Tick
    \/ Update
    \/ MovePlayer
    \/ MateActs
    \/ Evolve

SpecEvolve == InitPair /\ [][NextEvolve]_vars

\* the agent and the host reading its movement intent
NextSteer ==
    \/ Tick
    \/ Update
    \/ MovePlayer
    \/ QueryState

SpecSteer == InitPair /\ [][NextSteer]_vars

(***************************************************************************)
(* The specification of the LOD scheduler: the agent's update() with the   *)
(* LOD recompute in front of it, the players at the distances around the   *)
(* thresholds.                                                             *)
(***************************************************************************)
LODPositions == {<<250, 0>>, <<251, 0>>, <<500, 0>>, <<501, 0>>, <<750, 0>>, <<751, 0>>}

InitLOD == InitWith(BOOLEAN, <<0, -600>>)

TickLOD ==
    \E dt \in TickSteps :
        /\ updated
        /\ now + dt <= StartTime + MaxLODQuarters * 250
        /\ now' = now + dt
        /\ updated' = FALSE
        /\ obs' = ObsEnv("env")
        /\ out' = NoOut
        /\ UNCHANGED <<events, players, mate, zombie, ai, lod, mgr>>

MovePlayerLOD ==
    \E pos \in LODPositions :
        /\ players["p1"].alive
        /\ pos # players["p1"].position
        /\ players' = [players EXCEPT !["p1"].position = pos]
        /\ obs' = ObsEnv("env")
        /\ out' = NoOut
        /\ UNCHANGED <<now, updated, events, mate, zombie, ai, lod, mgr>>

\* a player dies and leaves game.livingPlayers
PlayerDies ==
    \E p \in Players :
        /\ players[p].alive
        /\ players' = [players EXCEPT ![p].alive = FALSE]
        /\ obs' = ObsEnv("env")
        /\ out' = NoOut
        /\ UNCHANGED <<now, updated, events, mate, zombie, ai, lod, mgr>>

\* ZombieAI.update() of an agent with LOD: the LOD recompute when it is due,
\* then update() as above
UpdateLOD ==
    \E off1 \in WanderOffsets, off2 \in WanderOffsets, obstacle \in Obstacles :
        LET f == UpdateAI(ai, off1, off2, obstacle)
        IN  /\ ~updated
            /\ updated' = TRUE
            /\ lod' = IF LODDue(lod) THEN UpdateLODLevel(lod) ELSE lod
            /\ ai' = Fields(f)
            /\ obs' = [Obs("update", ai, f) EXCEPT
                          !.lodRan = LODDue(lod),
                          !.pathLevel = IF f.pathRan THEN lod'.lodLevel ELSE @]
            /\ out' = NoOut
            /\ UNCHANGED <<now, events, players, mate, zombie, mgr>>

NextLOD ==
    \/ TickLOD
    \/ UpdateLOD
    \/ MovePlayerLOD
    \/ PlayerDies

SpecLOD == InitLOD /\ [][NextLOD]_vars

(***************************************************************************)
(* The specification of the manager's construction, over the candidate     *)
(* LOD configurations.                                                     *)
(***************************************************************************)
InitMgr ==
    /\ now = StartTime
    /\ updated = FALSE
    /\ events = 0
    /\ players = [p \in Players |-> [position |-> FarAway, alive |-> p = "p1"]]
    /\ mate = NoMate
    /\ zombie = NewZombie("basic_zombie", <<0, 0>>)
    /\ ai = NewAI(<<0, 0>>)
    /\ out = NoOut
    /\ obs = ObsInit
    /\ lod = NewLOD
    /\ \E c \in LODConfigs : mgr = NoManager(c)

\* new ZombieManager(game)
Construct ==
    /\ mgr.phase = "new"
    /\ mgr' = ConstructManager(mgr)
    /\ UNCHANGED <<now, updated, events, players, mate, zombie, ai, out, obs, lod>>

NextMgr == Construct

SpecMgr == InitMgr /\ [][NextMgr]_vars

(***************************************************************************)
(* The specification of the damage handler: the agent among two players,   *)
(* damaged down to and healed up to health ratios around the flee          *)
(* threshold, over a time long enough for targetSwitchCooldown to elapse.   *)
(***************************************************************************)
\* what the clock may advance by between two updates: targetSwitchCooldown has
\* elapsed after more than two seconds
DamageTickSteps == {1000, 2000}
\* the health a hit may leave, and the health a heal may restore, as
\* percentages of maxHealth: below, at and above fleeHealthThreshold
HurtPercents == {15, 20}
RegenPercents == {20, 25}

\* where the players may stand: the first inside every attack range or out of
\* sight, the second inside every detection range or out of sight
DamagePositions(p) ==
    IF p = "p1" THEN {<<15, 0>>, <<2000, 0>>} ELSE {<<0, -100>>, <<0, -2000>>}

MovePlayerDamage ==
    \E p \in Players : \E pos \in DamagePositions(p) :
        /\ players[p].alive
        /\ pos # players[p].position
        /\ players' = [players EXCEPT ![p].position = pos]
        /\ obs' = ObsEnv("env")
        /\ out' = NoOut
        /\ UNCHANGED <<now, updated, events, mate, zombie, ai, lod, mgr>>

TickDamage ==
    \E dt \in DamageTickSteps :
        /\ updated
        /\ now + dt <= StartTime + MaxDamageSeconds * 1000
        /\ now' = now + dt
        /\ updated' = FALSE
        /\ obs' = ObsEnv("env")
        /\ out' = NoOut
        /\ UNCHANGED <<events, players, mate, zombie, ai, lod, mgr>>

\* ZombiePlayer.damage(params) with a living non-zombie player as source; the
\* history keeps the source and the fields the handler found
Hurt ==
    \E src \in Players, pct \in HurtPercents :
        LET h == (zombie.maxHealth * pct) \div 100
            f == OnTakeDamage(ai, src, h)
        IN  /\ events < MaxEvents
            /\ players[src].alive
            /\ h <= zombie.health
            /\ events' = events + 1
            /\ zombie' = [zombie EXCEPT !.health = h]
            /\ ai' = Fields(f)
            /\ obs' = Obs("damage", ai, f) @@ [src |-> src, before |-> ai]
            /\ out' = NoOut
            /\ UNCHANGED <<now, updated, players, mate, lod, mgr>>

\* the host restores some of the zombie's health
Regen ==
    \E pct \in RegenPercents :
        LET h == (zombie.maxHealth * pct) \div 100
        IN  /\ h > zombie.health
            /\ zombie' = [zombie EXCEPT !.health = h]
            /\ obs' = ObsEnv("env")
            /\ out' = NoOut
            /\ UNCHANGED <<now, updated, events, players, mate, ai, lod, mgr>>

NextDamage ==
    \/ TickDamage
    \/ Update
    \/ MovePlayerDamage
    \/ Hurt
    \/ Regen

\* two players in the game
InitDamage == InitWith({TRUE}, <<0, -2000>>)

SpecDamage == InitDamage /\ [][NextDamage]_vars

\* what params.source of ZombiePlayer.damage may be: nothing, an object that
\* is no player (an obstacle, an explosion), another zombie, a human player
DamageSources ==
    {[given |-> FALSE, isPlayer |-> FALSE, isZombie |-> FALSE, id |-> NoPlayer],
     [given |-> TRUE, isPlayer |-> FALSE, isZombie |-> FALSE, id |-> NoPlayer],
     [given |-> TRUE, isPlayer |-> TRUE, isZombie |-> TRUE, id |-> NoPlayer]}
    \cup {[given |-> TRUE, isPlayer |-> TRUE, isZombie |-> FALSE, id |-> p] : p \in Players}

\* a test of the source that takes any player, zombie or not
IsPlayerSource(s) == s.given /\ s.isPlayer

\* the test ZombiePlayer.damage makes before it notifies the AI
IsHumanSource(s) == s.given /\ s.isPlayer /\ ~s.isZombie

\* ZombiePlayer.damage(params) with any source: Player.damage lowers the
\* health, then the AI is notified if the source passes the test.  A source
\* that is no human player stands where the first player stands, should the
\* AI ever be handed it.
DamageBy ==
    \E s \in DamageSources, pct \in HurtPercents :
        LET h == (zombie.maxHealth * pct) \div 100
            src == IF s.id # NoPlayer THEN s.id ELSE "p1"
            f == IF IsHumanSource(s) THEN OnTakeDamage(ai, src, h) ELSE Frame(ai)
        IN  /\ events < MaxEvents
            /\ s.id # NoPlayer => players[s.id].alive
            /\ h <= zombie.health
            /\ events' = events + 1
            /\ zombie' = [zombie EXCEPT !.health = h]
            /\ ai' = Fields(f)
            /\ obs' = Obs("damage", ai, f) @@ [source |-> s, before |-> ai]
            /\ out' = NoOut
            /\ UNCHANGED <<now, updated, players, mate, lod, mgr>>

\* the agent damaged by sources of every kind
NextSource ==
    \/ TickDamage
    \/ Update
    \/ MovePlayerDamage
    \/ DamageBy

SpecSource == InitDamage /\ [][NextSource]_vars

(***************************************************************************)
(* The specification of the agent's body: the host moves the zombie,       *)
(* ZombiePlayer.update() runs the AI and reads its movement intent at      *)
(* once, the grid may hold an obstacle, and the clock runs for longer than *)
(* stuckTimeout and circlingTimeout.                                       *)
(***************************************************************************)
\* what the clock advances by between two updates: stuckTimeout and
\* circlingTimeout are both met exactly, then exceeded
BodyTickSteps == {1000}
\* where the host may put the zombie: a step of 0.5 units stays below
\* stuckThreshold, steps of 4 and 4.5 units do not
ZombiePositions == {<<0, 0>>, <<5, 0>>, <<45, 0>>}
\* where the players may stand: the first at (1.5, 0), which is inside the
\* attack ranges of a zombie at the origin or at (0.5, 0) and inside the
\* detection range only of a basic zombie at (4.5, 0), or out of sight; the
\* second 2 units from the origin or out of sight
BodyPositions(p) ==
    IF p = "p1" THEN {<<15, 0>>, <<2000, 0>>} ELSE {<<0, -20>>, <<0, -2000>>}
\* the random offsets drawn by the stuck recovery and by the circling escape
StuckOffsets == {<<0, 50>>}
SteerOffsets == {<<0, -50>>}

\* history carried from one update to the next: stillSince, the time of the
\* first update of the present run of updates that found a displacement
\* below stuckThreshold (0: the last update found more, or recovered);
\* recoveredAt, the stuck position that was on record if the last update
\* was a stuck recovery; escapedTo, the wander target that the steering of
\* the last update assigned if its circling timeout fired
Carried ==
    IF "stillSince" \in DOMAIN obs
    THEN [stillSince |-> obs.stillSince, recoveredAt |-> obs.recoveredAt,
          escapedTo |-> obs.escapedTo]
    ELSE [stillSince |-> 0, recoveredAt |-> NoVec, escapedTo |-> NoVec]
ObsBody == ObsEnv("env") @@ Carried

TickBody ==
    \E dt \in BodyTickSteps :
        /\ updated
        /\ now + dt <= StartTime + MaxBodySeconds * 1000
        /\ now' = now + dt
        /\ updated' = FALSE
        /\ obs' = ObsBody
        /\ out' = NoOut
        /\ UNCHANGED <<events, players, mate, zombie, ai, lod, mgr>>

\* a living player moves, before the zombie is updated in the tick
MovePlayerBody ==
    \E p \in Players : \E pos \in BodyPositions(p) :
        /\ ~updated
        /\ players[p].alive
        /\ pos # players[p].position
        /\ players' = [players EXCEPT ![p].position = pos]
        /\ obs' = ObsBody
        /\ out' = NoOut
        /\ UNCHANGED <<now, updated, events, mate, zombie, ai, lod, mgr>>

\* Player.update(), which ZombiePlayer.update() ends with, moves the body
MoveZombie ==
    \E pos \in ZombiePositions :
        /\ updated
        /\ pos # zombie.position
        /\ zombie' = [zombie EXCEPT !.position = pos]
        /\ obs' = ObsBody
        /\ out' = NoOut
        /\ UNCHANGED <<now, updated, events, players, mate, ai, lod, mgr>>

\* ZombiePlayer.update(): ai.update(), with the LOD recompute in front of it
\* when it is due, then processAIInputs() reads ai.getCurrentState().  The
\* history keeps the fields before (before) and
\* between the two calls (mid), whether checkIfStuck recovered, and the
\* number of wander targets each call assigned.
ZombieUpdate ==
    /\ ~updated
    /\ \E off1 \in StuckOffsets, off2 \in WanderOffsets, off3 \in SteerOffsets,
          obstacle \in BOOLEAN :
        \E f \in {UpdateAI(ai, off1, off2, obstacle)} :
        \E r \in {GetCurrentState(Fields(f), off3)} :
        LET below == CloserThan(zombie.position, ai.lastPosition, stuckThreshold)
            recovered == CheckIfStuck(Frame(ai), off1).wandered > 0
        IN  /\ updated' = TRUE
            /\ lod' = IF LODDue(lod) THEN UpdateLODLevel(lod) ELSE lod
            /\ ai' = r.fields
            /\ out' = r.result
            /\ obs' = [Obs("zombieUpdate", ai, f) EXCEPT !.lodRan = LODDue(lod)]
                        @@ [before |-> ai, mid |-> Fields(f), obstacle |-> obstacle,
                            wandered |-> f.wandered, steerWandered |-> r.wandered,
                            below |-> below, recovered |-> recovered,
                            prevStillSince |-> Carried.stillSince,
                            stillSince |-> IF ~below \/ recovered THEN 0
                                           ELSE IF Carried.stillSince = 0 THEN now
                                           ELSE Carried.stillSince,
                            prevRecoveredAt |-> Carried.recoveredAt,
                            recoveredAt |-> IF recovered THEN ai.stuckPosition ELSE NoVec,
                            prevEscapedTo |-> Carried.escapedTo,
                            escapedTo |-> IF r.wandered > 0 THEN r.fields.targetPosition
                                          ELSE NoVec]
            /\ UNCHANGED <<now, events, players, mate, zombie, mgr>>

\* one player in the game, the zombie moved by the host
NextBody ==
    \/ TickBody
    \/ ZombieUpdate
    \/ MovePlayerBody
    \/ MoveZombie

SpecBody == Init /\ [][NextBody]_vars

TickCircle ==
    \E dt \in BodyTickSteps :
        /\ updated
        /\ now + dt <= StartTime + MaxCircleSeconds * 1000
        /\ now' = now + dt
        /\ updated' = FALSE
        /\ obs' = ObsBody
        /\ out' = NoOut
        /\ UNCHANGED <<events, players, mate, zombie, ai, lod, mgr>>

\* two players around a zombie that stays where it is
NextCircle ==
    \/ TickCircle
    \/ ZombieUpdate
    \/ MovePlayerBody

SpecCircle == InitDamage /\ [][NextCircle]_vars

\* the clock advances by pathfindingUpdateInterval, so that the gate of
\* update() opens at every other update only
TickStill ==
    /\ updated
    /\ now + pathfindingUpdateInterval <= StartTime + MaxStillHalves * 500
    /\ now' = now + pathfindingUpdateInterval
    /\ updated' = FALSE
    /\ obs' = ObsBody
    /\ out' = NoOut
    /\ UNCHANGED <<events, players, mate, zombie, ai, lod, mgr>>

\* a new zombie at the origin and one player, who is 1.5 units away or out
\* of sight and stays there
InitStill ==
    /\ now = StartTime
    /\ updated = FALSE
    /\ events = 0
    /\ \E pos \in BodyPositions("p1") :
           players = [p \in Players |->
                        [position |-> IF p = "p1" THEN pos ELSE <<0, -2000>>,
                         alive |-> p = "p1"]]
    /\ mate = NoMate
    /\ \E t \in SpawnTypes : zombie = NewZombie(t, <<0, 0>>)
    /\ ai = NewAI(<<0, 0>>)
    /\ out = NoOut
    /\ obs = ObsInit
    /\ lod = NewLOD
    /\ mgr = NoManager(DocumentedConfig)

\* the zombie moved by the host and updated every half second
NextStill ==
    \/ TickStill
    \/ ZombieUpdate
    \/ MoveZombie

SpecStill == InitStill /\ [][NextStill]_vars

(***************************************************************************)
(* Properties.                                                             *)
(***************************************************************************)
\* the living players, and whether p is one at the least distance of the zombie
Living == {p \in Players : players[p].alive}
IsNearest(p) ==
    /\ p \in Living
    /\ \A q \in Living : DistSq(zombie.position, players[p].position)
                            <= DistSq(zombie.position, players[q].position)
\* distance(zombie, p) <= base detection range x evolution multiplier: both
\* sides squared, in hundredths of a unit (the multiplier being in tenths)
WithinDetection(p) ==
    100 * DistSq(zombie.position, players[p].position)
        <= (ZombieTypes(zombie.zombieType).detectionRange * zombie.evolutionMultiplier)
             * (ZombieTypes(zombie.zombieType).detectionRange * zombie.evolutionMultiplier)
\* distance(zombie, p) <= the attack range of the type, whatever the multiplier
WithinAttack(p) ==
    DistSq(zombie.position, players[p].position)
        <= ZombieTypes(zombie.zombieType).attackRange
             * ZombieTypes(zombie.zombieType).attackRange

\* C1: every transition into Attacking is taken from Hunting: each setState
\* call of a handler (update with its pack coordination, onTakeDamage) whose
\* new state is Attacking is made in the Hunting state, and the state changes
\* only through setState.
C1_AttackingOnlyFromHunting ==
    /\ \A i \in 1..Len(obs.calls) :
           obs.calls[i].to = Attacking => obs.calls[i].from = Hunting
    /\ ai.currentState # obs.start => Changes(obs.calls) # {}
    /\ obs.calls # <<>> => ai.currentState = obs.calls[Len(obs.calls)].to

\* an update in which pack coordination made the agent Hunting and the state
\* update then made it Attacking
C1_Witness ==
    /\ obs.op = "update"
    /\ Len(obs.calls) = 2
    /\ obs.calls[1].by = "pack"
    /\ obs.calls[1].from # Hunting
    /\ obs.calls[2].to = Attacking
    /\ ai.currentState = Attacking

\* C2: a change of state not forced by damage comes no sooner than the 500 ms
\* cooldown after the previous such change: not in the same handler, and not
\* within 500 ms of it.
C2_StateChangeCooldown ==
    \A i \in TickChanges(obs.calls) :
        /\ \A j \in TickChanges(obs.calls) : j >= i
        /\ now - obs.prevChangedAt >= stateChangeCooldown

\* C3: getCurrentState() is a read-only, idempotent snapshot: it leaves
\* targetPosition, wanderTarget and the circling timer as they are, and a
\* second call right after the first returns the same AIState.
C3_IntentReadOnlyIdempotent ==
    [][obs'.op = "getCurrentState" =>
          /\ ai'.targetPosition = ai.targetPosition
          /\ ai'.wanderTarget = ai.wanderTarget
          /\ ai'.circlingStartTime = ai.circlingStartTime
          /\ (obs.op = "getCurrentState" => out' = out)]_vars

C5_LODRecomputeThrottled ==
    /\ ~obs.lodRan => lod = obs.prevLOD
    /\ obs.lodRan => /\ lod.lastLODUpdate = now
                     /\ now - obs.prevLOD.lastLODUpdate >= 1000

\* a recompute that follows one of this run and changes the level
C5_Witness ==
    /\ obs.lodRan
    /\ obs.prevLOD.lastLODUpdate >= StartTime
    /\ lod.lodLevel # obs.prevLOD.lodLevel

\* C6: a waypoint recompute at LOD level L comes no sooner than the
\* pathfinding interval of L (500, 1000, 2000, 5000 ms for levels 0..3) after
\* the previous recompute made at that level.
C6_PathfindingPerLODInterval ==
    (obs.pathRan /\ obs.prevPathAt # 0 /\ obs.prevPathLevel = obs.pathLevel) =>
        now - obs.prevPathAt >= CASE obs.pathLevel = 0 -> 500
                                  [] obs.pathLevel = 1 -> 1000
                                  [] obs.pathLevel = 2 -> 2000
                                  [] obs.pathLevel = 3 -> 5000

\* C7: the constructor fails, with nothing attached to the game, exactly when
\* the thresholds are not strictly increasing or an interval is not positive;
\* otherwise it succeeds and attaches game.zombies and game.zombieManager.
C7_ConstructorValidatesFirst ==
    mgr.phase # "new" =>
        LET c == mgr.config
            valid == /\ c.high < c.medium /\ c.medium < c.low /\ c.low < c.minimal
                     /\ c.ihigh > 0 /\ c.imedium > 0 /\ c.ilow > 0 /\ c.iminimal > 0
        IN  /\ valid => /\ mgr.phase = "constructed"
                        /\ mgr.gameZombies /\ mgr.gameZombieManager
            /\ ~valid => /\ mgr.phase = "thrown"
                         /\ mgr.error # "none"
                         /\ ~mgr.gameZombies /\ ~mgr.gameZombieManager

\* the construction with high = 50 and medium = 25 has failed
C7_Witness ==
    /\ mgr.phase = "thrown"
    /\ mgr.config.high = 50 /\ mgr.config.medium = 25
    /\ mgr.config.ihigh > 0 /\ mgr.config.imedium > 0 /\ mgr.config.iminimal > 0

\* C8: after an update() whose state update found the agent Idle, Wandering
\* or Grouping with the nearest living player within detection range, the
\* agent is Hunting, its target is that player and targetPosition is that
\* player's position.
C8_DetectionBindsHunting ==
    (obs.op = "update" /\ obs.entry \in {Idle, Wandering, Grouping}) =>
        \A p \in Players :
            (IsNearest(p) /\ WithinDetection(p)) =>
                /\ ai.currentState = Hunting
                /\ ai.target = p
                /\ ai.targetPosition = players[p].position

\* a Grouping agent has bound the second player, the nearer of the two
C8_Witness ==
    /\ obs.op = "update"
    /\ obs.entry = Grouping
    /\ Living = Players
    /\ IsNearest("p2") /\ ~IsNearest("p1") /\ WithinDetection("p2")
    /\ ai.currentState = Hunting

C10_RangeAsymmetry ==
    [][/\ (obs'.op = "update" /\ obs'.nearest # NoPlayer) =>
              /\ IsNearest(obs'.nearest)
              /\ obs'.detected <=> WithinDetection(obs'.nearest)
              /\ obs'.inRange <=> WithinAttack(obs'.nearest)
       /\ obs'.op = "evolve" =>
              /\ zombie'.evolutionMultiplier # zombie.evolutionMultiplier
              /\ \A p \in Living : IsInAttackRange(p)' <=> IsInAttackRange(p)]_vars

\* an evolved zombie detects a player beyond its base detection range, and
\* beyond its attack range although within it times the multiplier
C10_Witness ==
    /\ obs.op = "update"
    /\ zombie.evolutionMultiplier > 10
    /\ obs.nearest # NoPlayer
    /\ obs.detected /\ ~obs.inRange
    /\ LET dsq == DistSq(zombie.position, players[obs.nearest].position)
           t == ZombieTypes(zombie.zombieType)
       IN  \/ dsq > t.detectionRange * t.detectionRange
           \/ 100 * dsq <= (t.attackRange * zombie.evolutionMultiplier)
                              * (t.attackRange * zombie.evolutionMultiplier)

\* C11 as stated: damage that leaves health / maxHealth < 0.2 ends in Fleeing
\* with targetPosition 20 units from the damage source, on the ray from the
\* source through the agent; a state update entered in Fleeing ends Idle if
\* health / maxHealth > 0.2 and Fleeing otherwise.
C11_FleePointFromSource ==
    /\ (obs.op = "damage" /\ zombie.health * 5 < zombie.maxHealth) =>
           /\ ai.currentState = Fleeing
           /\ ai.targetPosition # NoVec
           /\ LET s == players[obs.src].position
                  away == VecSub(zombie.position, s)
                  d == VecSub(ai.targetPosition, s)
              IN  /\ 198 * 198 <= LenSq(d) /\ LenSq(d) <= 202 * 202
                  /\ d[1] * away[1] + d[2] * away[2] > 0
                  /\ 100 * Abs(d[1] * away[2] - d[2] * away[1])
                         <= d[1] * away[1] + d[2] * away[2]
    /\ (obs.op = "update" /\ obs.entry = Fleeing) =>
           ai.currentState = IF zombie.health * 5 > zombie.maxHealth THEN Idle ELSE Fleeing

\* C11 amended: the same, the flee point being 20 units from the agent's own
\* position, in the direction from the source to the agent.
C11_FleePointFromAgent ==
    /\ (obs.op = "damage" /\ zombie.health * 5 < zombie.maxHealth) =>
           /\ ai.currentState = Fleeing
           /\ ai.targetPosition # NoVec
           /\ LET away == VecSub(zombie.position, players[obs.src].position)
                  d == VecSub(ai.targetPosition, zombie.position)
              IN  /\ 198 * 198 <= LenSq(d) /\ LenSq(d) <= 202 * 202
                  /\ d[1] * away[1] + d[2] * away[2] > 0
                  /\ 100 * Abs(d[1] * away[2] - d[2] * away[1])
                         <= d[1] * away[1] + d[2] * away[2]
    /\ (obs.op = "update" /\ obs.entry = Fleeing) =>
           ai.currentState = IF zombie.health * 5 > zombie.maxHealth THEN Idle ELSE Fleeing

\* an agent that fled has been healed to a quarter of its health, and the
\* state update has returned it to Idle
C11_Witness ==
    /\ obs.op = "update"
    /\ obs.entry = Fleeing
    /\ zombie.health * 4 = zombie.maxHealth
    /\ ai.currentState = Idle

\* C12: onTakeDamage always sets aggroUntil = now + 10 s; it makes the source
\* the Hunting target exactly when the agent had no target or more than 2 s
\* had passed since lastTargetSwitch; with health at or above the flee
\* threshold the agent then is Hunting the source, and otherwise keeps its
\* state, target and targetPosition.
C12_DamageAggroAndRebind ==
    obs.op = "damage" =>
        LET b == obs.before
            due == b.target = NoPlayer \/ now - b.lastTargetSwitch > 2000
            rebound == \E i \in 1..Len(obs.calls) :
                           obs.calls[i].to = Hunting /\ obs.calls[i].by = "damage"
        IN  /\ ai.aggroUntil = now + 10000
            /\ rebound <=> due
            /\ due => ai.lastTargetSwitch = now
            /\ zombie.health * 5 >= zombie.maxHealth =>
                   IF due
                   THEN /\ ai.currentState = Hunting
                        /\ ai.target = obs.src
                        /\ ai.targetPosition = players[obs.src].position
                   ELSE /\ ai.currentState = b.currentState
                        /\ ai.target = b.target
                        /\ ai.targetPosition = b.targetPosition
                        /\ ai.lastTargetSwitch = b.lastTargetSwitch

\* an agent bound to one player for more than 2 s is hit by the other and
\* rebinds to it
C12_Witness ==
    /\ obs.op = "damage"
    /\ obs.before.target # NoPlayer
    /\ obs.before.target # obs.src
    /\ now - obs.before.lastTargetSwitch > 2000
    /\ ai.currentState = Hunting
    /\ ai.target = obs.src

\* C20: a state update entered in Hunting with no living player within
\* detection range ends in Wandering if now < aggroUntil and in Idle
\* otherwise, with no target bound.
C20_HuntingLosesDetection ==
    (obs.op = "update" /\ obs.entry = Hunting
       /\ \A p \in Living : ~WithinDetection(p)) =>
        /\ ai.currentState = IF now < ai.aggroUntil THEN Wandering ELSE Idle
        /\ ai.target = NoPlayer

\* an aggressive agent that was Hunting a player has lost sight of it and
\* gone Wandering
C20_Witness ==
    /\ obs.op = "update"
    /\ obs.start = Hunting
    /\ obs.entry = Hunting
    /\ Living # {}
    /\ \A p \in Living : ~WithinDetection(p)
    /\ now < ai.aggroUntil
    /\ ai.currentState = Wandering

\* C13: an update() in which pathfinding is due, begun by an Idle agent of a
\* pack type whose last target switch is more than 1 s old and which has,
\* within groupRadius, a living zombie that is Hunting a target, ends with the
\* agent Hunting that target, whether or not the agent detects it.
C13_PackAdoption ==
    [][(/\ obs'.op = "update"
        /\ ai.currentState = Idle
        /\ ZombieTypes(zombie.zombieType).packBehavior
        /\ now - ai.lastPathUpdate > 500
        /\ now - ai.lastTargetSwitch > 1000
        /\ ~mate.dead
        /\ DistSq(zombie.position, mate.position) <= 100 * 100
        /\ mate.currentState = Hunting
        /\ mate.target # NoPlayer)
       => /\ ai'.currentState = Hunting
          /\ ai'.target = mate.target]_vars

(***************************************************************************)
(* C14.  Circling timeout: when ZombiePlayer.update() reaches the steering *)
(* evaluation with the agent Attacking a target within circlingRadius and  *)
(* a circling timer (circlingStartTime # 0) started more than              *)
(* circlingTimeout ago, the evaluation leaves circlingStartTime = 0 and    *)
(* assigns a new wander target.                                            *)
(***************************************************************************)
CirclingTimedOut ==
    /\ obs.op = "zombieUpdate"
    /\ obs.mid.currentState = Attacking
    /\ obs.mid.target # NoPlayer
    /\ CloserThan(zombie.position, players[obs.mid.target].position, circlingRadius)
    /\ obs.mid.circlingStartTime # 0
    /\ now - obs.mid.circlingStartTime > circlingTimeout

C14_CirclingTimeoutExits ==
    CirclingTimedOut => ai.circlingStartTime = 0 /\ obs.steerWandered > 0

\* the same with no other living player within separationDistance: then the
\* evaluation does leave the timer at 0
OnlyTargetNear ==
    \A p \in Players \ {obs.mid.target} :
        players[p].alive => ~CloserThan(zombie.position, players[p].position, separationDistance)
C14_AloneExits ==
    CirclingTimedOut /\ OnlyTargetNear => ai.circlingStartTime = 0 /\ obs.steerWandered > 0
C14_AloneReached == CirclingTimedOut /\ OnlyTargetNear

(***************************************************************************)
(* C15.  Stuck recovery: when update() finds, for the first time since the *)
(* present run of below-threshold displacements began more than            *)
(* stuckTimeout ago, a displacement below stuckThreshold, it assigns a new *)
(* wander target and clears the stuck record, whatever the behaviour state;*)
(* before the timeout it does neither on account of the record.            *)
(***************************************************************************)
StuckTimedOut ==
    /\ obs.op = "zombieUpdate"
    /\ obs.below
    /\ obs.prevStillSince # 0
    /\ now - obs.prevStillSince > stuckTimeout

C15_StuckRecovery ==
    /\ StuckTimedOut =>
          /\ obs.recovered
          /\ obs.wandered > 0
          /\ obs.mid.wanderTarget # NoVec
          /\ obs.mid.stuckPosition = NoVec
          /\ ai.stuckPosition = NoVec
    /\ obs.op = "zombieUpdate" /\ ~StuckTimedOut => ~obs.recovered

\* recoveries are reached from each behaviour state the specification visits
C15_Witness ==
    /\ StuckTimedOut
    /\ obs.start = Attacking
    /\ obs.mid.currentState = Attacking
    /\ obs.before.wanderTarget # obs.mid.wanderTarget
C15_WitnessHunting == StuckTimedOut /\ obs.start = Hunting
C15_WitnessWandering == StuckTimedOut /\ obs.start = Wandering
C15_WitnessIdle == StuckTimedOut /\ obs.start = Idle
C15_WitnessGrouping == StuckTimedOut /\ obs.start = Grouping

(***************************************************************************)
(* C16.  Stuck escalation: at the update that follows a stuck recovery, an *)
(* agent still within 0.5 units of the stuck position that was on record   *)
(* is put into Wandering with a target 10 to 2 * wanderRadius units away   *)
(* from it.                                                                *)
(***************************************************************************)
C16_StuckEscalation ==
    /\ obs.op = "zombieUpdate"
    /\ obs.prevRecoveredAt # NoVec
    /\ WithinDist(zombie.position, obs.prevRecoveredAt, 5)
    => /\ obs.mid.currentState = Wandering
       /\ obs.mid.targetPosition # NoVec
       /\ ~CloserThan(zombie.position, obs.mid.targetPosition, 100)
       /\ WithinDist(zombie.position, obs.mid.targetPosition, 2 * wanderRadius)

(***************************************************************************)
(* C17.  Stuck detection runs in every update(), whether or not the        *)
(* pathfinding gate is open and whatever the LOD level: an update that     *)
(* finds a displacement of stuckThreshold or more leaves no stuck record,  *)
(* the record is there exactly while a run of below-threshold updates      *)
(* lasts and carries the time of the first update of that run, and a       *)
(* recovery happens only more than stuckTimeout after that time.           *)
(***************************************************************************)
C17_StuckDetectionEveryUpdate ==
    obs.op = "zombieUpdate" =>
        /\ ~obs.below => ai.stuckPosition = NoVec
        /\ ai.stuckPosition = NoVec <=> obs.stillSince = 0
        /\ ai.stuckPosition # NoVec => ai.stuckTime = obs.stillSince
        /\ obs.recovered =>
              /\ obs.prevStillSince # 0
              /\ now - obs.prevStillSince > stuckTimeout
              /\ obs.before.stuckTime = obs.prevStillSince

\* the gate of update() is closed
GateClosed == ~(now - obs.before.lastPathUpdate > pathfindingUpdateInterval)

\* a recovery at LOD level 3 with the gate closed, timed from a run of still
\* updates that began after a move had cleared an earlier record
C17_Witness ==
    /\ obs.op = "zombieUpdate"
    /\ obs.recovered
    /\ obs.prevStillSince > StartTime
    /\ GateClosed
    /\ lod.lodLevel = 3
\* a record cleared by a move, at levels 0 and 3, the gate closed
C17_WitnessCleared ==
    /\ obs.op = "zombieUpdate"
    /\ ~obs.below
    /\ obs.before.stuckPosition # NoVec
    /\ GateClosed
    /\ lod.lodLevel = 3
C17_WitnessClearedNear ==
    /\ obs.op = "zombieUpdate"
    /\ ~obs.below
    /\ obs.before.stuckPosition # NoVec
    /\ GateClosed
    /\ lod.lodLevel = 0
    /\ obs.start = Attacking

(***************************************************************************)
(* C18.  When ZombiePlayer.update() reads the movement intent and the      *)
(* agent has an intermediateTarget, the flags returned are those of the    *)
(* direction from the zombie to the intermediateTarget, steered by the     *)
(* collision avoidance.                                                    *)
(***************************************************************************)
C18_SteersTowardWaypoint ==
    /\ obs.op = "zombieUpdate"
    /\ obs.mid.targetPosition # NoVec
    /\ obs.mid.intermediateTarget # NoVec
    => \E off \in SteerOffsets :
          out.movement =
              Movement(ApplyCollisionAvoidance(
                           Frame(obs.mid),
                           VecScale(VecSub(obs.mid.intermediateTarget, zombie.position), 10, 1),
                           off).dir)

(***************************************************************************)
(* C19.  Tactical attack positioning: when the state update keeps the      *)
(* agent Attacking, the goal it sets lies, for an agent closer than        *)
(* separationDistance to its target, in the circling direction as seen     *)
(* from the zombie (within a quarter, by tangent, of that direction), and  *)
(* otherwise on the line of approach, 0.8 * attackRange from the target.   *)
(***************************************************************************)
C19_TacticalGoal ==
    /\ obs.op = "zombieUpdate"
    /\ obs.entry = Attacking
    /\ obs.mid.currentState = Attacking
    => LET tpos == players[obs.mid.target].position
           goal == obs.mid.targetPosition
           d == VecSub(goal, zombie.position)
           c == GetCirclingDirection(tpos)
           dot == d[1] * c[1] + d[2] * c[2]
           cross == d[1] * c[2] - d[2] * c[1]
       IN  IF CloserThan(zombie.position, tpos, separationDistance)
           THEN dot > 0 /\ 4 * Abs(cross) <= dot
           ELSE goal = Along(tpos, Normalize(VecSub(tpos, zombie.position)),
                             -((GetAttackRange * 8) \div 10))

\* at the origin the goal the code sets does lie in the circling direction
C19_AtOrigin == zombie.position = <<0, 0>> => C19_TacticalGoal
C19_AtOriginReached ==
    /\ zombie.position = <<0, 0>>
    /\ obs.op = "zombieUpdate"
    /\ obs.entry = Attacking
    /\ obs.mid.currentState = Attacking

(***************************************************************************)
(* C21.  Damage whose source is not a non-zombie player (another zombie,   *)
(* an object that is no player, no source) leaves aggroUntil,              *)
(* currentState, target, targetPosition and lastTargetSwitch of the AI as  *)
(* they were.                                                              *)
(***************************************************************************)
C21_OnlyHumanDamageNotifies ==
    /\ obs.op = "damage"
    /\ "source" \in DOMAIN obs
    /\ ~(obs.source.isPlayer /\ ~obs.source.isZombie)
    => /\ ai.aggroUntil = obs.before.aggroUntil
       /\ ai.currentState = obs.before.currentState
       /\ ai.target = obs.before.target
       /\ ai.targetPosition = obs.before.targetPosition
       /\ ai.lastTargetSwitch = obs.before.lastTargetSwitch

\* a zombie damages an agent that is Hunting a player, its health falling
\* below the flee threshold
C21_Witness ==
    /\ obs.op = "damage"
    /\ "source" \in DOMAIN obs
    /\ obs.source.isPlayer /\ obs.source.isZombie
    /\ ai.currentState = Hunting
    /\ ai.target # NoPlayer
    /\ zombie.health * FleeDen < zombie.maxHealth * FleeNum

(***************************************************************************)
(* The specification of a single zombie of any defined type that is        *)
(* wounded and evolved over and over (ZombiePlayer.evolve()).              *)
(***************************************************************************)
\* the multipliers evolve() is called with: those of the manager and the one
\* of the test suite
GrowMultipliers == EvolutionMultipliers \cup {15}
\* health a wound may leave, as a percentage of maxHealth
WoundPercents == {0, 10, 25, 50, 75}

InitGrow ==
    /\ now = StartTime
    /\ updated = FALSE
    /\ events = 0
    /\ players = [p \in Players |-> [position |-> FarAway, alive |-> p = "p1"]]
    /\ mate = NoMate
    /\ \E t \in ZombieTypeIds : zombie = NewZombie(t, <<0, 0>>)
    /\ ai = NewAI(<<0, 0>>)
    /\ out = NoOut
    /\ obs = ObsInit
    /\ lod = NewLOD
    /\ mgr = NoManager(DocumentedConfig)

\* ZombiePlayer.damage(params) without a source: the health drops, the AI is
\* not notified
Wound ==
    \E pct \in WoundPercents :
        LET h == (zombie.maxHealth * pct) \div 100
        IN  /\ h < zombie.health
            /\ zombie' = [zombie EXCEPT !.health = h]
            /\ obs' = ObsEnv("env")
            /\ out' = NoOut
            /\ UNCHANGED <<now, updated, events, players, mate, ai, lod, mgr>>

\* ZombiePlayer.evolve(multiplier) with any multiplier, at any time
Grow ==
    \E m \in GrowMultipliers :
        /\ zombie' = EvolveZombie(zombie, m)
        /\ ai' = OnEvolution(ai, m)
        /\ obs' = ObsEnv("evolve") @@ [before |-> zombie, multiplier |-> m]
        /\ out' = NoOut
        /\ UNCHANGED <<now, updated, events, players, mate, lod, mgr>>

NextGrow == Wound \/ Grow

SpecGrow == InitGrow /\ [][NextGrow]_vars

(***************************************************************************)
(* C22: evolve(m) sets the evolution multiplier to m, maxHealth to         *)
(* floor(baseHealth * m) and the damage of getZombieDamage() to            *)
(* floor(baseDamage * m), both from the base stats of the type whatever    *)
(* the multiplier was before; the health keeps its ratio,                  *)
(* health = floor(newMaxHealth * oldHealth / oldMaxHealth), so that        *)
(* 0 <= health <= maxHealth, and for m > 1 maxHealth and damage are        *)
(* strictly greater than the base values.                                  *)
(***************************************************************************)
C22_EvolveFromBase ==
    (obs.op = "evolve" /\ "multiplier" \in DOMAIN obs) =>
        LET m == obs.multiplier
            base == ZType
        IN  /\ zombie.evolutionMultiplier = m
            /\ zombie.maxHealth = (base.health * m) \div 10
            /\ ZombieDamage(zombie) = (base.damage * m) \div 10
            /\ zombie.health = (zombie.maxHealth * obs.before.health) \div obs.before.maxHealth
            /\ 0 <= zombie.health /\ zombie.health <= zombie.maxHealth
            /\ m > 10 => /\ zombie.maxHealth > base.health
                         /\ ZombieDamage(zombie) > base.damage

\* a wounded zombie that had been evolved before is evolved once more
C22_Witness ==
    /\ obs.op = "evolve" /\ "multiplier" \in DOMAIN obs
    /\ obs.before.evolutionMultiplier = 13
    /\ obs.multiplier = 16
    /\ 0 < obs.before.health /\ obs.before.health < obs.before.maxHealth
    /\ zombie.health < zombie.maxHealth

(***************************************************************************)
(* C24: for every defined type and every multiplier the manager applies    *)
(* (1.0, 1.3, 1.6, 2.0), getDetectionRange() > getAttackRange() > 0, so    *)
(* that every distance within the attack range is within the detection     *)
(* range (distances d in tenths, compared in hundredths of a unit).        *)
(***************************************************************************)
C24_DetectionBeyondAttack ==
    zombie.evolutionMultiplier \in EvolutionMultipliers =>
        /\ GetDetectionRange100 > GetAttackRange * 10
        /\ GetAttackRange > 0
        /\ \A d \in 0..GetAttackRange : d * 10 <= GetDetectionRange100

\* the type with the shortest sight and the longest reach, at the highest
\* multiplier of the manager
C24_Witness ==
    /\ zombie.zombieType = "tank_zombie"
    /\ zombie.evolutionMultiplier = 20
    /\ obs.op = "evolve"

(***************************************************************************)
(* The manager and its horde (zombieManager.ts).  The manager, the        *)
(* collections of the game it registers zombies with and the zombies it   *)
(* created are held in one record; a zombie is an identity in Ids.         *)
(***************************************************************************)
\* the zombie objects that can exist at a time
MaxHorde == 13
Ids == 1..MaxHorde

\* EvolutionMultipliers.health and EvolutionMultipliers.damage, in tenths
EvolutionHealth == <<10, 13, 16, 20>>
EvolutionDamage == <<10, 14, 18, 23>>
\* evolutionIntervals
evolutionIntervals == {180000, 360000, 540000}
\* targetZombieCount, spawnInterval, maxSpawnPerInterval, despawnRadius (tenths)
targetZombieCountMin == 8
targetZombieCountMax == 12
initialSpawnLimit == 4
spawnInterval == 2000
maxSpawnPerInterval == 2
despawnRadius == 1200
chunkSize == 500
chunkExpiry == 30000

\* no object has this identity
NoBody == [zombieType |-> "none", position |-> <<0, 0>>, health |-> 0, maxHealth |-> 0,
           evolutionMultiplier |-> 10, dead |-> TRUE, removedBy |-> "none"]
\* what the last operation did: calls of game.removeObject, assignments of
\* game.aliveCountDirty, the zombie its last spawnZombie() created and the
\* value that call returned (0 for undefined)
NoTrace == [removeObject |-> 0, dirty |-> 0, returned |-> 0, created |-> 0]

\* new ZombieManager(game), and a game without zombies
NewHorde ==
    [zombies |-> {}, living |-> {}, connected |-> {}, spectatable |-> {},
     newPlayers |-> {}, grid |-> {}, pool |-> [z \in Ids |-> NoBody],
     evolutionLevel |-> 0, timeouts |-> {}, scheduled |-> FALSE, scheduledAt |-> 0,
     cleaned |-> FALSE,
     lastSpawnCheck |-> 0, spawnRateMultiplier |-> 10000, activeChunks |-> {},
     totalSpawned |-> 0, currentActive |-> 0, aliveCountDirty |-> FALSE,
     trace |-> NoTrace]

\* the collections of the game and of the manager that hold z
Holders(g, z) ==
    {c \in {"living", "connected", "spectatable", "newPlayers", "zombies", "grid"} :
        z \in CASE c = "living" -> g.living [] c = "connected" -> g.connected
                [] c = "spectatable" -> g.spectatable [] c = "newPlayers" -> g.newPlayers
                [] c = "zombies" -> g.zombies [] c = "grid" -> g.grid}
AllHolders == {"living", "connected", "spectatable", "newPlayers", "zombies", "grid"}

\* the identities new ZombiePlayer() may take: those of no object, or of an
\* object nothing refers to any more
Unborn(g) == {z \in Ids : g.pool[z].zombieType = "none"}
Garbage(g) == {z \in Ids : Holders(g, z) = {}}
HasFresh(g) == Garbage(g) # {}
Fresh(g) ==
    IF Unborn(g) # {} THEN CHOOSE z \in Unborn(g) : \A y \in Unborn(g) : z <= y
    ELSE CHOOSE z \in Garbage(g) : \A y \in Garbage(g) : z <= y

\* the human players of the game: getHumanPlayers(), getHumanPlayerCount()
GetHumanPlayers == {p \in Players : players[p].alive}
GetHumanPlayerCount == Cardinality(GetHumanPlayers)

\* calculateEvolutionMultiplier(): the health table at the capped level
CalculateEvolutionMultiplier(g) == EvolutionHealth[Min(g.evolutionLevel, Len(EvolutionHealth) - 1) + 1]

\* rollbackZombieSpawn(zombie, completedOperations)
RollbackZombieSpawn(g, z) ==
    [g EXCEPT !.living = @ \ {z}, !.connected = @ \ {z}, !.zombies = @ \ {z},
              !.spectatable = @ \ {z}, !.newPlayers = @ \ {z},
              !.grid = @ \ {z}, !.trace.removeObject = @ + 1]

\* the first n of the six registrations of spawnZombie
AddOperations(g, z, n) ==
    [g EXCEPT !.living = IF n >= 1 THEN @ \cup {z} ELSE @,
              !.connected = IF n >= 2 THEN @ \cup {z} ELSE @,
              !.spectatable = IF n >= 3 THEN @ \cup {z} ELSE @,
              !.newPlayers = IF n >= 4 THEN @ \cup {z} ELSE @,
              !.zombies = IF n >= 5 THEN @ \cup {z} ELSE @,
              !.grid = IF n >= 6 THEN @ \cup {z} ELSE @]

\* spawnZombie(position): in = [type, position, throws], the type drawn by
\* selectZombieType(), the position given or found, and the step that throws:
\* none (0), one of the six registrations (1..6) or evolve (7)
SpawnZombie(g, in) ==
    LET z == Fresh(g)
        born == [g EXCEPT !.pool[z] = NewZombie(in.type, in.position)
                                      @@ [dead |-> FALSE, removedBy |-> "none"],
                          !.trace.created = z]
        added == [AddOperations(born, z, 6) EXCEPT !.aliveCountDirty = TRUE,
                                                   !.trace.dirty = @ + 1]
        multiplier == CalculateEvolutionMultiplier(g)
        grown == IF g.evolutionLevel > 0
                 THEN [added EXCEPT !.pool[z] = EvolveZombie(@, multiplier)]
                 ELSE added
    IN  IF in.throws \in 1..6
        THEN [RollbackZombieSpawn(AddOperations(born, z, in.throws - 1), z)
                 EXCEPT !.trace.returned = 0]
        ELSE IF g.evolutionLevel > 0 /\ in.throws = 7
        THEN [added EXCEPT !.trace.returned = 0]
        ELSE [grown EXCEPT !.totalSpawned = @ + 1,
                           !.currentActive = Cardinality(grown.zombies),
                           !.trace.returned = z]

\* a run of spawnZombie() calls, one for each element of ins
RECURSIVE SpawnMany(_, _)
SpawnMany(g, ins) ==
    IF ins = <<>> \/ ~HasFresh(g) THEN g
    ELSE SpawnMany(SpawnZombie(g, Head(ins)), Tail(ins))

\* a removeZombieInternal() without the guard on this.zombies
RemoveZombieUnguarded(g, z, by) ==
    [g EXCEPT !.zombies = @ \ {z}, !.living = @ \ {z}, !.connected = @ \ {z},
              !.spectatable = @ \ {z}, !.grid = @ \ {z},
              !.trace.removeObject = @ + 1,
              !.aliveCountDirty = TRUE, !.trace.dirty = @ + 1,
              !.pool[z].removedBy = by]
\* removeZombie(zombie), removeZombieInternal(zombie); by names the caller
RemoveZombieInternal(g, z, by) ==
    IF z \notin g.zombies THEN g
    ELSE [g EXCEPT !.zombies = @ \ {z}, !.living = @ \ {z}, !.connected = @ \ {z},
                   !.spectatable = @ \ {z}, !.grid = @ \ {z},
                   !.trace.removeObject = @ + 1,
                   !.aliveCountDirty = TRUE, !.trace.dirty = @ + 1,
                   !.pool[z].removedBy = by]

\* a cleanup() that leaves the evolution timeouts running
CleanupKeepingTimeouts(g, hostRemoves) ==
    LET gone == IF hostRemoves THEN g.zombies ELSE {}
    IN  [g EXCEPT !.activeChunks = {}, !.zombies = {}, !.cleaned = TRUE,
                  !.living = @ \ gone, !.connected = @ \ gone,
                  !.spectatable = @ \ gone, !.newPlayers = @ \ gone, !.grid = @ \ gone,
                  !.pool = [z \in Ids |-> IF z \in g.zombies
                                          THEN [@[z] EXCEPT !.removedBy = "cleanup"]
                                          ELSE @[z]]]
\* cleanup(): the timeouts are cleared, the chunks forgotten, every zombie
\* disconnected; Player.disconnect() is the host's and may take the zombie
\* out of the collections of the game (hostRemoves) or leave it there
Cleanup(g, hostRemoves) ==
    LET gone == IF hostRemoves THEN g.zombies ELSE {}
    IN  [g EXCEPT !.timeouts = {}, !.activeChunks = {}, !.zombies = {}, !.cleaned = TRUE,
                  !.living = @ \ gone, !.connected = @ \ gone,
                  !.spectatable = @ \ gone, !.newPlayers = @ \ gone, !.grid = @ \ gone,
                  !.pool = [z \in Ids |-> IF z \in g.zombies
                                          THEN [@[z] EXCEPT !.removedBy = "cleanup"]
                                          ELSE @[z]]]

\* scheduleEvolutions(): one timeout for each interval, due that long from now
\* (scheduled and scheduledAt are history, and so is cleaned: whether
\* cleanup() ran since the last scheduling)
ScheduleEvolutions(g) ==
    [g EXCEPT !.timeouts = @ \cup {now + i : i \in evolutionIntervals},
              !.scheduled = TRUE, !.scheduledAt = now, !.cleaned = FALSE]

\* evolveAllZombies(): the level rises, every living zombie is evolved with
\* the multiplier of the level, and up to level 2 half as many zombies as
\* there are human players are spawned (ins are the inputs of the spawns)
EvolveAllZombies(g, ins) ==
    LET level == g.evolutionLevel + 1
        raised == [g EXCEPT !.evolutionLevel = level]
        multiplier == CalculateEvolutionMultiplier(raised)
        evolved == [raised EXCEPT !.pool = [z \in Ids |->
                        IF z \in g.zombies /\ ~g.pool[z].dead
                        THEN EvolveZombie(g.pool[z], multiplier) ELSE g.pool[z]]]
    IN  IF level <= 2 THEN SpawnMany(evolved, SubSeq(ins, 1, GetHumanPlayerCount \div 2))
        ELSE evolved
(***************************************************************************)
(* The specification of the manager spawning, evolving, removing and       *)
(* cleaning up a small horde of every type, minute by minute.              *)
(***************************************************************************)
MaxSpawnTicks == 7
MaxBodies == 5
SpawnTickSteps == {90000}
\* the inputs of a single spawnZombie() call
SpawnInputs == {[type |-> "fast_runner", position |-> <<300, 0>>, throws |-> k] :
                    k \in {0, 3, 6, 7}}
\* the inputs of the spawns of spawnZombiesForMatch() and evolveAllZombies()
Sound(t) == [type |-> t, position |-> <<300, 0>>, throws |-> 0]
MatchInputs == {<<Sound("basic_zombie"), Sound("fast_runner"), Sound("tank_zombie"), Sound("basic_zombie")>>}
EvolutionInputs == {<<Sound("tank_zombie")>>}

\* the record of the manager at the start of an operation: nothing is traced
\* yet, and the objects of failed spawns, which nothing refers to, are gone
Begin(g) ==
    [g EXCEPT !.trace = NoTrace,
              !.pool = [z \in Ids |-> IF Holders(g, z) = {} /\ @[z].removedBy = "none"
                                      THEN NoBody ELSE @[z]]]
ObsHorde(op) == [op |-> op]

InitSpawn ==
    /\ now = StartTime
    /\ updated = FALSE
    /\ events = 0
    /\ \E joined \in BOOLEAN :
           players = [p \in Players |-> [position |-> <<0, 0>>,
                                         alive |-> IF p = "p1" THEN TRUE ELSE joined]]
    /\ mate = NoMate
    /\ zombie = NewZombie("basic_zombie", <<0, 0>>)
    /\ ai = NewAI(<<0, 0>>)
    /\ out = NoOut
    /\ obs = ObsInit
    /\ lod = NewLOD
    /\ mgr = NewHorde

\* timers fire when due: the clock passes no timeout that is pending; it is
\* followed from the start of the mode
NoneDue == \A t \in mgr.timeouts : t > now
TickSpawn ==
    \E step \in SpawnTickSteps :
        /\ NoneDue
        /\ mgr.scheduled
        /\ now + step <= StartTime + MaxSpawnTicks * step
        /\ now' = now + step
        /\ updated' = FALSE
        /\ obs' = ObsHorde("tick")
        /\ out' = NoOut
        /\ UNCHANGED <<events, players, mate, zombie, ai, lod, mgr>>

\* spawnZombiesForMatch(humanPlayerCount), called once when the mode starts
StartMatch ==
    \E ins \in MatchInputs :
        /\ ~mgr.scheduled
        /\ mgr' = ScheduleEvolutions([SpawnMany(Begin(mgr), SubSeq(ins, 1, Min(targetZombieCountMin, initialSpawnLimit)))
                                         EXCEPT !.lastSpawnCheck = now])
        /\ obs' = ObsHorde("match") @@ [humanPlayerCount |-> GetHumanPlayerCount,
                                        sizeBefore |-> Cardinality(mgr.zombies)]
        /\ out' = NoOut
        /\ UNCHANGED <<now, updated, events, players, mate, zombie, ai, lod>>

\* the timeout of scheduleEvolutions() that is due runs evolveAllZombies()
FireEvolution ==
    \E t \in mgr.timeouts, ins \in EvolutionInputs :
        /\ t <= now
        /\ \A u \in mgr.timeouts : t <= u
        /\ mgr' = EvolveAllZombies([Begin(mgr) EXCEPT !.timeouts = @ \ {t}], ins)
        /\ obs' = ObsHorde("evolution")
        /\ out' = NoOut
        /\ UNCHANGED <<now, updated, events, players, mate, zombie, ai, lod>>

\* spawnZombie(position) called by the host
SpawnOne ==
    \E in \in SpawnInputs :
        /\ Cardinality(Ids \ Unborn(mgr)) < MaxBodies
        /\ mgr' = SpawnZombie(Begin(mgr), in)
        /\ obs' = ObsHorde("spawn") @@ [input |-> in, totalBefore |-> mgr.totalSpawned]
        /\ out' = NoOut
        /\ UNCHANGED <<now, updated, events, players, mate, zombie, ai, lod>>

\* a tracked zombie dies
KillTargets == {1}
Kill ==
    \E z \in mgr.zombies \cap KillTargets :
        /\ ~mgr.pool[z].dead
        /\ mgr' = [Begin(mgr) EXCEPT !.pool[z].dead = TRUE, !.pool[z].health = 0]
        /\ obs' = ObsHorde("kill") @@ [zombie |-> z]
        /\ out' = NoOut
        /\ UNCHANGED <<now, updated, events, players, mate, zombie, ai, lod>>

\* cleanup(), once, when the game ends
CleanupAll ==
    \E hostRemoves \in BOOLEAN :
        /\ ~mgr.cleaned
        /\ mgr' = Cleanup(Begin(mgr), hostRemoves)
        /\ obs' = ObsHorde("cleanup") @@ [sizeBefore |-> Cardinality(mgr.zombies),
                                          chunksBefore |-> mgr.activeChunks,
                                          timeoutsBefore |-> mgr.timeouts]
        /\ out' = NoOut
        /\ UNCHANGED <<now, updated, events, players, mate, zombie, ai, lod>>

NextSpawn == TickSpawn \/ StartMatch \/ FireEvolution \/ SpawnOne \/ Kill \/ CleanupAll

SpecSpawn == InitSpawn /\ [][NextSpawn]_vars

(***************************************************************************)
(* Dynamic spawning (zombieManager.ts: update() and what it calls).        *)
(***************************************************************************)
\* updateSpawnRate(): 1.0 + 0.15 per minute of game time, at most 2.5, in
\* ten-thousandths, which is exact at every whole second (the game started
\* at StartTime)
UpdateSpawnRate(g) ==
    [g EXCEPT !.spawnRateMultiplier = Min(10000 + ((now - StartTime) * 1500) \div 60000, 25000)]

\* removeZombieInternal() on each zombie of the list zombiesToRemove
RECURSIVE RemoveAll(_, _, _)
RemoveAll(g, zs, by) ==
    IF zs = {} THEN g
    ELSE LET z == CHOOSE x \in zs : \A y \in zs : x <= y
         IN  RemoveAll(RemoveZombieInternal(g, z, by), zs \ {z}, by)

\* despawnDistantZombies(humanPlayers): the zombies farther than
\* despawnRadius from every human player are removed
TooFar(g, z, humans) ==
    \A p \in humans :
        DistSq(g.pool[z].position, players[p].position) > despawnRadius * despawnRadius
DespawnDistantZombies(g, humans) ==
    RemoveAll(g, {z \in g.zombies : TooFar(g, z, humans)}, "despawn")

\* getChunkKey(position), getZombiesInChunk(chunkKey)
GetChunkKey(position) == <<position[1] \div chunkSize, position[2] \div chunkSize>>
GetZombiesInChunk(g, key) ==
    Cardinality({z \in g.zombies : GetChunkKey(g.pool[z].position) = key})

\* updateChunkActivity(humanPlayers): the chunks of the players are set
\* active, the chunks idle for more than 30 seconds are dropped
UpdateChunkActivity(g, humans) ==
    LET keys == {GetChunkKey(players[p].position) : p \in humans}
    IN  [g EXCEPT !.activeChunks =
            {c \in @ : c.key \notin keys /\ c.lastActivity >= now - chunkExpiry}
            \cup {[key |-> k, lastActivity |-> now, zombieCount |-> GetZombiesInChunk(g, k)] :
                    k \in keys}]

\* calculateTargetZombieCount(humanPlayerCount)
CalculateTargetZombieCount(g, humanPlayerCount) ==
    LET baseTarget == targetZombieCountMin + (humanPlayerCount - 1) * 2
        scaledTarget == (baseTarget * g.spawnRateMultiplier) \div 10000
    IN  Min(scaledTarget, targetZombieCountMax)

\* spawnZombieNearPlayers(), spawnZombieInChunk(centerPosition): in names the
\* player drawn, the offset drawn (25 to 60 units long) and whether the gas
\* or an obstacle makes isValidSpawnPosition() refuse the position, which it
\* also does within 20 units of a human player
SpawnZombieNearPlayers(g, in) ==
    LET spawnPosition == VecAdd(players[in.near].position, in.offset)
        valid == /\ ~in.blocked
                 /\ \A p \in GetHumanPlayers :
                        DistSq(spawnPosition, players[p].position) >= 200 * 200
    IN  IF ~players[in.near].alive \/ ~valid \/ ~HasFresh(g) THEN g
        ELSE SpawnZombie(g, [type |-> in.type, position |-> spawnPosition, throws |-> 0])

RECURSIVE SpawnNearMany(_, _)
SpawnNearMany(g, ins) ==
    IF ins = <<>> THEN g
    ELSE SpawnNearMany(SpawnZombieNearPlayers(g, Head(ins)), Tail(ins))

\* spawnZombiesIfNeeded(humanPlayers): up to the target, and no more than
\* floor(maxSpawnPerInterval * spawnRateMultiplier) in one check
SpawnZombiesIfNeeded(g, humans, ins) ==
    LET currentZombieCount == Cardinality(g.zombies)
        targetCount == CalculateTargetZombieCount(g, Cardinality(humans))
        spawnCount == Min(targetCount - currentZombieCount,
                          (maxSpawnPerInterval * g.spawnRateMultiplier) \div 10000)
    IN  IF currentZombieCount >= targetCount THEN g
        ELSE SpawnNearMany(g, SubSeq(ins, 1, spawnCount))

\* updateDynamicSpawning()
UpdateDynamicSpawning(g, ins) ==
    LET humans == GetHumanPlayers
    IN  IF humans = {} THEN g
        ELSE SpawnZombiesIfNeeded(
                 UpdateChunkActivity(DespawnDistantZombies(UpdateSpawnRate(g), humans), humans),
                 humans, ins)

\* update(): the spawn check, when spawnInterval has passed since the last
\* (the LOD report that follows only logs)
ManagerUpdate(g, ins) ==
    IF now - g.lastSpawnCheck >= spawnInterval
    THEN [UpdateDynamicSpawning(g, ins) EXCEPT !.lastSpawnCheck = now]
    ELSE g

(***************************************************************************)
(* The specification of the manager keeping up a horde of one type around  *)
(* one or two human players who stay together.                             *)
(***************************************************************************)
MaxShortTicks == 2
MaxLongTicks == 4
\* the steps of the clock: within spawnInterval, and a minute
HordeTickSteps == {1000, 60000}
\* the attempts of one spawn check: every one near the first player, at one
\* offset, some of them refused
Attempt(blocked) == [near |-> "p1", offset |-> <<300, 0>>, blocked |-> blocked,
                     type |-> "basic_zombie"]
MaxAttempts == (maxSpawnPerInterval * 25000) \div 10000
AttemptRuns == {[i \in 1..MaxAttempts |-> Attempt(i <= k)] : k \in 0..1}
\* where the players walk to, together
HordePlaces == {<<2000, 0>>}


\* Game.tick(): the clock moves on from the start of the mode to the end of
\* the game; the tick before has run the manager
TickHorde ==
    \E step \in HordeTickSteps :
        /\ NoneDue
        /\ mgr.scheduled /\ ~mgr.cleaned /\ updated
        /\ IF step < spawnInterval
           THEN events < MaxShortTicks /\ events' = events + 1
           ELSE now + step <= StartTime + MaxLongTicks * step /\ events' = events
        /\ now' = now + step
        /\ updated' = FALSE
        /\ obs' = ObsHorde("tick")
        /\ out' = NoOut
        /\ UNCHANGED <<players, mate, zombie, ai, lod, mgr>>

\* ZombieManager.update(), once in each tick after the mode has started
Manage ==
    \E ins \in AttemptRuns :
        /\ mgr.scheduled /\ ~updated
        /\ updated' = TRUE
        /\ mgr' = ManagerUpdate(Begin(mgr), ins)
        /\ obs' = ObsHorde("manage") @@ [checkedAt |-> mgr.lastSpawnCheck,
                                         sizeBefore |-> Cardinality(mgr.zombies),
                                         totalBefore |-> mgr.totalSpawned]
        /\ out' = NoOut
        /\ UNCHANGED <<now, events, players, mate, zombie, ai, lod>>

\* the human players walk away from where they started, while the game lasts
MovePlayers ==
    \E pos \in HordePlaces :
        /\ mgr.scheduled /\ ~mgr.cleaned /\ updated
        /\ players["p1"].position = <<0, 0>>
        /\ players' = [p \in Players |-> [players[p] EXCEPT !.position = pos]]
        /\ obs' = ObsHorde("env")
        /\ out' = NoOut
        /\ UNCHANGED <<now, updated, events, mate, zombie, ai, lod, mgr>>

\* removeZombie(zombie) called by the host, on a tracked zombie or on one
\* that was removed before
RemoveTargets == {1}
RemoveZombie ==
    \E z \in RemoveTargets \ Unborn(mgr) :
        /\ mgr' = RemoveZombieInternal(Begin(mgr), z, "remove")
        /\ obs' = ObsHorde("remove") @@ [zombie |-> z, tracked |-> z \in mgr.zombies,
                                         removedBy |-> mgr.pool[z].removedBy]
        /\ out' = NoOut
        /\ UNCHANGED <<now, updated, events, players, mate, zombie, ai, lod>>

NextHorde ==
    \/ TickHorde
    \/ StartMatch
    \/ Manage
    \/ FireEvolution
    \/ MovePlayers
    \/ RemoveZombie
    \/ CleanupAll

SpecHorde == InitSpawn /\ [][NextHorde]_vars

\* Game.tick() in long steps, before and after cleanup(); the tick before has
\* run the manager
TickEnd ==
    \E step \in SpawnTickSteps :
        /\ NoneDue
        /\ mgr.scheduled /\ updated
        /\ now + step <= StartTime + MaxSpawnTicks * step
        /\ now' = now + step
        /\ updated' = FALSE
        /\ obs' = ObsHorde("tick")
        /\ out' = NoOut
        /\ UNCHANGED <<events, players, mate, zombie, ai, lod, mgr>>

\* the manager from the start of the mode past the end of the game
NextEnd == TickEnd \/ StartMatch \/ Manage \/ FireEvolution \/ CleanupAll

SpecEnd == InitSpawn /\ [][NextEnd]_vars

\* the timeouts of scheduleEvolutions(), and those of them that are due
EvolutionsDue == {mgr.scheduledAt + i : i \in evolutionIntervals}
Elapsed == {t \in EvolutionsDue : t <= now}
\* the evolution events ran on time and none was cancelled
OnSchedule == mgr.scheduled /\ ~mgr.cleaned /\ mgr.timeouts = EvolutionsDue \ Elapsed
\* the zombies the manager tracks that are alive
LiveZombies == {z \in mgr.zombies : ~mgr.pool[z].dead}

(***************************************************************************)
(* C23: the evolution timeline.  The level is 0 before 3 minutes, 1 from   *)
(* 3 to 6, 2 from 6 to 9 and 3 from 9 minutes on, and at level L every     *)
(* live zombie has maxHealth = floor(baseHealth * health[L]) and           *)
(* getZombieDamage() = floor(baseDamage * damage[L]), with the tables      *)
(* health = 1.0/1.3/1.6/2.0 and damage = 1.0/1.4/1.8/2.3.                  *)
(***************************************************************************)
C23_EvolutionTimeline ==
    OnSchedule =>
        LET L == mgr.evolutionLevel
        IN  /\ L = Cardinality(Elapsed)
            /\ \A z \in LiveZombies :
                   LET base == ZombieTypes(mgr.pool[z].zombieType)
                   IN  /\ mgr.pool[z].maxHealth = (base.health * EvolutionHealth[L + 1]) \div 10
                       /\ ZombieDamage(mgr.pool[z]) = (base.damage * EvolutionDamage[L + 1]) \div 10

\* what the code does keep: the level follows the timeline, and every live
\* zombie carries the health multiplier of the level, for its damage as well,
\* or no multiplier when its evolve() threw during the spawn
C23_HealthTableForBoth ==
    OnSchedule =>
        LET L == mgr.evolutionLevel
        IN  /\ L = Cardinality(Elapsed)
            /\ \A z \in LiveZombies :
                   LET base == ZombieTypes(mgr.pool[z].zombieType)
                       m == mgr.pool[z].evolutionMultiplier
                   IN  /\ m \in {10, EvolutionHealth[L + 1]}
                       /\ mgr.pool[z].maxHealth = (base.health * m) \div 10
                       /\ ZombieDamage(mgr.pool[z]) = (base.damage * m) \div 10
C23_Level3 ==
    /\ OnSchedule /\ mgr.evolutionLevel = 3
    /\ \E z \in LiveZombies : mgr.pool[z].evolutionMultiplier = 20

(***************************************************************************)
(* C25: spawnZombie is all-or-nothing.  When it returns a zombie, the      *)
(* zombie is in livingPlayers, connectedPlayers, spectatablePlayers,       *)
(* newPlayers, zombies and the grid, and stats.totalSpawned was            *)
(* incremented; when it returns undefined, the zombie it created is in     *)
(* none of them and stats.totalSpawned is unchanged.                       *)
(***************************************************************************)
C25_SpawnAllOrNothing ==
    obs.op = "spawn" =>
        LET z == mgr.trace.created
        IN  IF mgr.trace.returned # 0
            THEN /\ mgr.trace.returned = z
                 /\ Holders(mgr, z) = AllHolders
                 /\ mgr.totalSpawned = obs.totalBefore + 1
            ELSE /\ Holders(mgr, z) = {}
                 /\ mgr.totalSpawned = obs.totalBefore

\* what the code does keep: the spawn is undone when a registration throws
C25_RegistrationRolledBack ==
    (obs.op = "spawn" /\ obs.input.throws \in 0..6) =>
        LET z == mgr.trace.created
        IN  IF obs.input.throws = 0
            THEN /\ mgr.trace.returned = z
                 /\ Holders(mgr, z) = AllHolders
                 /\ mgr.totalSpawned = obs.totalBefore + 1
            ELSE /\ mgr.trace.returned = 0
                 /\ Holders(mgr, z) = {}
                 /\ mgr.totalSpawned = obs.totalBefore
C25_RolledBack ==
    /\ obs.op = "spawn" /\ obs.input.throws = 6
    /\ mgr.trace.removeObject = 1
    /\ mgr.zombies # {}

(***************************************************************************)
(* C26: spawnZombiesForMatch(humanPlayerCount) at once spawns at least 3   *)
(* zombies for each human player (at least 6 more tracked zombies for 2    *)
(* players), every single spawn succeeding.                                *)
(***************************************************************************)
C26_ThreePerHuman ==
    obs.op = "match" =>
        Cardinality(mgr.zombies) >= obs.sizeBefore + 3 * obs.humanPlayerCount

\* what the code does: four zombies, whatever the number of players
C26_FourWhateverTheCount ==
    obs.op = "match" =>
        Cardinality(mgr.zombies) = obs.sizeBefore + Min(targetZombieCountMin, initialSpawnLimit)
C26_TwoPlayers ==
    obs.op = "match" /\ obs.humanPlayerCount = 2 /\ mgr.totalSpawned = 4

(***************************************************************************)
(* C27: after spawnZombiesForMatch, over any sequence of manager updates,  *)
(* despawns, removals and evolution events, with one or two human players, *)
(* zombies.size never exceeds targetZombieCount.max = 12.                  *)
(***************************************************************************)
C27_PopulationCapped ==
    mgr.scheduled => Cardinality(mgr.zombies) <= targetZombieCountMax

\* what the code does keep: a spawn check never raises the population above
\* the maximum
C27_ChecksKeepTheCap ==
    (obs.op = "manage" /\ Cardinality(mgr.zombies) > obs.sizeBefore) =>
        Cardinality(mgr.zombies) <= targetZombieCountMax
C27_CheckReachesCap ==
    /\ obs.op = "manage" /\ Cardinality(mgr.zombies) > obs.sizeBefore
    /\ Cardinality(mgr.zombies) = targetZombieCountMax

(***************************************************************************)
(* C28: dynamic spawning is rate-limited.  A spawn check runs at most once *)
(* per spawnInterval (2000 ms), and a check spawns at most                 *)
(* maxSpawnPerInterval = 2 zombies, at any game time and however far the   *)
(* population is below the target.                                         *)
(***************************************************************************)
C28_RateLimited ==
    obs.op = "manage" =>
        /\ now - obs.checkedAt < spawnInterval =>
               /\ mgr.lastSpawnCheck = obs.checkedAt
               /\ mgr.totalSpawned = obs.totalBefore
        /\ mgr.totalSpawned - obs.totalBefore <= maxSpawnPerInterval

\* what the code does keep: no check within spawnInterval of the last, and
\* in one check no more than floor(maxSpawnPerInterval * spawnRateMultiplier)
C28_RateScaled ==
    obs.op = "manage" =>
        /\ now - obs.checkedAt < spawnInterval =>
               /\ mgr.lastSpawnCheck = obs.checkedAt
               /\ mgr.totalSpawned = obs.totalBefore
               /\ Cardinality(mgr.zombies) = obs.sizeBefore
        /\ now - obs.checkedAt >= spawnInterval => mgr.lastSpawnCheck = now
        /\ mgr.totalSpawned - obs.totalBefore
               <= (maxSpawnPerInterval * mgr.spawnRateMultiplier) \div 10000
C28_CheckSkipped ==
    /\ obs.op = "manage" /\ now - obs.checkedAt < spawnInterval /\ now > obs.checkedAt
    /\ Cardinality(mgr.zombies) < CalculateTargetZombieCount(mgr, GetHumanPlayerCount)

(***************************************************************************)
(* C29: removeZombie on a zombie that is no longer tracked (removed by     *)
(* removeZombie, by the distance despawn or by cleanup) does nothing: no   *)
(* collection changes, game.removeObject is not called and aliveCountDirty *)
(* is not set, so that removing twice is removing once.                    *)
(***************************************************************************)
C29_DoubleRemovalNoOp ==
    [][(obs'.op = "remove" /\ ~obs'.tracked) =>
           /\ mgr'.trace.removeObject = 0
           /\ mgr'.trace.dirty = 0
           /\ mgr'.aliveCountDirty = mgr.aliveCountDirty
           /\ \A z \in Ids : Holders(mgr', z) = Holders(mgr, z)
           /\ mgr'.activeChunks = mgr.activeChunks
           /\ mgr'.totalSpawned = mgr.totalSpawned]_vars

\* a zombie is removed a second time
C29_Witness ==
    obs.op = "remove" /\ ~obs.tracked /\ obs.removedBy = "remove"
C29_AfterDespawn ==
    obs.op = "remove" /\ ~obs.tracked /\ obs.removedBy = "despawn"
C29_AfterCleanup ==
    obs.op = "remove" /\ ~obs.tracked /\ obs.removedBy = "cleanup"
C29_FirstRemoval ==
    obs.op = "remove" /\ obs.tracked /\ mgr.trace.removeObject = 1 /\ mgr.trace.dirty = 1

(***************************************************************************)
(* C30: after cleanup() the tracked set is empty, chunk tracking is empty  *)
(* and every evolution timeout is cancelled; from then on no               *)
(* evolveAllZombies event fires, evolutionLevel does not change and        *)
(* zombies.size changes only when zombies are spawned again (by a spawn    *)
(* check of update(); spawnZombiesForMatch() starts the mode anew).        *)
(***************************************************************************)
C30_CleanupCancelsEvolution ==
    [][/\ obs'.op = "cleanup" =>
              /\ mgr'.zombies = {}
              /\ mgr'.activeChunks = {}
              /\ mgr'.timeouts = {}
       /\ (mgr.cleaned /\ obs'.op # "match") =>
              /\ obs'.op # "evolution"
              /\ mgr'.timeouts = {}
              /\ mgr'.evolutionLevel = mgr.evolutionLevel
              /\ Cardinality(mgr'.zombies) # Cardinality(mgr.zombies) =>
                     /\ obs'.op \in {"manage", "spawn", "match"}
                     /\ mgr'.totalSpawned > mgr.totalSpawned]_vars

\* the game was cleaned up with evolutions pending, and the clock has passed
\* the last of them
C30_Witness ==
    /\ mgr.cleaned /\ mgr.evolutionLevel = 1
    /\ \A t \in EvolutionsDue : t <= now
C30_ChunksCleared ==
    /\ obs.op = "cleanup" /\ obs.chunksBefore # {} /\ obs.sizeBefore > 0
    /\ obs.timeoutsBefore # {}

(***************************************************************************)
(* C31: every movement intent is well formed: left and right are never     *)
(* both raised, nor up and down; a flag is raised only when the steered    *)
(* direction exceeds the deadzone of 0.1 on its axis, in its sense; and    *)
(* with no targetPosition all four flags are down.                         *)
(***************************************************************************)
C31_IntentWellFormed ==
    obs.op = "getCurrentState" =>
        /\ ~(out.movement.left /\ out.movement.right)
        /\ ~(out.movement.up /\ out.movement.down)
        /\ out.movement.right => obs.dir[1] > moveThreshold
        /\ out.movement.left => obs.dir[1] < -moveThreshold
        /\ out.movement.down => obs.dir[2] > moveThreshold
        /\ out.movement.up => obs.dir[2] < -moveThreshold
        /\ obs.goal = NoVec => out.movement = NoMovement /\ out.target = NoVec

\* an intent is read whose steered direction has a component inside the
\* deadzone, which raises no flag, and one outside it, which does
C31_Witness ==
    /\ obs.op = "getCurrentState" /\ obs.goal # NoVec
    /\ \E i \in 1..2 : obs.dir[i] # 0 /\ Abs(obs.dir[i]) <= moveThreshold
    /\ out.movement # NoMovement
\* a diagonal intent, and the intent of an agent without a targetPosition
C31_Diagonal ==
    /\ obs.op = "getCurrentState"
    /\ (out.movement.left \/ out.movement.right)
    /\ (out.movement.up \/ out.movement.down)
C31_NoGoal ==
    obs.op = "getCurrentState" /\ obs.goal = NoVec

(***************************************************************************)
(* The specification of target binding: the agent among players who move   *)
(* and die, its pack, damage and evolution.                                *)
(***************************************************************************)
NextBind ==
    \/ Tick
    \/ Update
    \/ MovePlayer
    \/ MateActs
    \/ Damage
    \/ Evolve
    \/ PlayerDies

SpecBind == InitPair /\ [][NextBind]_vars

(***************************************************************************)
(* C32: a new agent is Idle without a target, and in every state that      *)
(* update(), onTakeDamage(), onEvolution() and the pack coordination leave *)
(* a target is bound exactly when the agent is Hunting or Attacking.       *)
(***************************************************************************)
C32_TargetBoundIffEngaged ==
    /\ obs.op = "init" => ai.currentState = Idle /\ ai.target = NoPlayer
    /\ ai.target # NoPlayer <=> ai.currentState \in {Hunting, Attacking}

\* what holds of the code: a target is bound only in Hunting and Attacking,
\* and the agent is without one there only as Hunting, once no player lives
C32_BoundOnlyWhenEngaged ==
    /\ obs.op = "init" => ai.currentState = Idle /\ ai.target = NoPlayer
    /\ ai.target # NoPlayer => ai.currentState \in {Hunting, Attacking}
    /\ (ai.currentState \in {Hunting, Attacking} /\ ai.target = NoPlayer) =>
           ai.currentState = Hunting /\ Living = {}
\* an Attacking agent whose last living player died is updated
C32_HuntingNobody ==
    /\ obs.op = "update" /\ obs.entry = Attacking /\ obs.nearest = NoPlayer
    /\ ai.currentState = Hunting /\ ai.target = NoPlayer

(***************************************************************************)
(* The specification of the attack decision: the host reads the intent at  *)
(* any time, between updates the players move and die and the zombie is    *)
(* damaged.                                                                *)
(***************************************************************************)
\* the clock advances by half seconds, at most this many past StartTime
MaxAttackHalves == 2

TickAttack ==
    /\ updated
    /\ now + 500 <= StartTime + MaxAttackHalves * 500
    /\ now' = now + 500
    /\ updated' = FALSE
    /\ obs' = ObsEnv("env")
    /\ out' = NoOut
    /\ UNCHANGED <<events, players, mate, zombie, ai, lod, mgr>>

\* two players, of whom the first comes into the attack range and the second
\* into the detection range
NextAttack ==
    \/ TickAttack
    \/ Update
    \/ MovePlayerDamage
    \/ PlayerDies
    \/ Damage
    \/ QueryState

SpecAttack == InitDamage /\ [][NextAttack]_vars

(***************************************************************************)
(* C33: the attack flag is raised only for a valid engagement.  An intent  *)
(* with shouldAttack comes from an Attacking agent with a bound target;    *)
(* an update() leaves the agent Attacking only with the player as target   *)
(* that its state update found nearest among the living and within attack  *)
(* range; and no other handler makes the agent Attacking or gives an       *)
(* Attacking agent another target, so that the target of the flag is the   *)
(* one the most recent state update validated.                             *)
(***************************************************************************)
C33_AttackOnlyWhenEngaged ==
    [][/\ (obs'.op = "getCurrentState" /\ out'.shouldAttack) =>
              /\ ai.currentState = Attacking /\ ai.target # NoPlayer
              /\ ai'.currentState = Attacking /\ ai'.target = ai.target
       /\ (obs'.op = "update" /\ ai'.currentState = Attacking) =>
              /\ ai'.target # NoPlayer
              /\ ai'.target = obs'.nearest
              /\ obs'.inRange
              /\ IsNearest(ai'.target) /\ WithinAttack(ai'.target)
       /\ (obs'.op # "update" /\ ai'.currentState = Attacking) =>
              /\ ai.currentState = Attacking
              /\ ai'.target = ai.target]_vars

\* the flag is raised for a target that has moved out of the attack range
\* since the update, and for one that is still in it
C33_Witness ==
    /\ obs.op = "getCurrentState" /\ out.shouldAttack
    /\ ~WithinAttack(ai.target)
C33_InRange ==
    /\ obs.op = "getCurrentState" /\ out.shouldAttack
    /\ WithinAttack(ai.target) /\ Cardinality(Living) = 2
\* an Attacking agent is damaged and keeps its state and target
C33_DamagedWhileAttacking ==
    obs.op = "damage" /\ ai.currentState = Attacking

(***************************************************************************)
(* The specification of the zombie's attacks: ZombiePlayer.update() with   *)
(* the combat fields processAIInputs() writes, and zombieAttack(target)    *)
(* called by the host at any time.                                         *)
(***************************************************************************)
\* _attackCooldown
attackCooldown == 1000
\* the clock advances by half seconds, at most this many past StartTime
MaxCombatHalves == 3

\* the fields of the Player that processAIInputs() and zombieAttack() write;
\* the rotation is kept as the direction its angle is taken from
NewCombatZombie(t, pos) ==
    NewZombie(t, pos) @@
        [lastAttackTime |-> 0, attacking |-> FALSE, startedAttacking |-> FALSE,
         stoppedAttacking |-> FALSE, movement |-> NoMovement,
         turning |-> FALSE, rotation |-> <<0, 0>>]

\* canAttack()
CanAttack(z) == now - z.lastAttackTime >= attackCooldown

\* a processAIInputs() that starts an attack whenever the AI asks for one
ProcessAIInputsWithoutCooldown(z, aiState) ==
    [z EXCEPT !.movement = aiState.movement,
              !.rotation = IF aiState.target # NoVec
                           THEN VecSub(aiState.target, z.position) ELSE @,
              !.turning = IF aiState.target # NoVec THEN TRUE ELSE @,
              !.attacking = aiState.shouldAttack,
              !.startedAttacking = aiState.shouldAttack,
              !.lastAttackTime = IF aiState.shouldAttack THEN now ELSE @,
              !.stoppedAttacking = FALSE]
\* processAIInputs(), aiState being what ai.getCurrentState() returned
ProcessAIInputs(z, aiState) ==
    [z EXCEPT !.movement = aiState.movement,
              !.rotation = IF aiState.target # NoVec
                           THEN VecSub(aiState.target, z.position) ELSE @,
              !.turning = IF aiState.target # NoVec THEN TRUE ELSE @,
              !.attacking = CanAttack(z) /\ aiState.shouldAttack,
              !.startedAttacking = CanAttack(z) /\ aiState.shouldAttack,
              !.lastAttackTime = IF CanAttack(z) /\ aiState.shouldAttack THEN now ELSE @,
              !.stoppedAttacking = FALSE]

\* zombieAttack(target): whether it deals its damage, and the fields it leaves
ZombieAttackHits(z, p) ==
    CanAttack(z) /\ WithinDist(z.position, players[p].position, ZombieTypes(z.zombieType).attackRange)
ZombieAttack(z, p) ==
    IF ZombieAttackHits(z, p) THEN [z EXCEPT !.lastAttackTime = now] ELSE z

InitCombat ==
    /\ now = StartTime
    /\ updated = FALSE
    /\ events = 0
    /\ players = [p \in Players |->
                    [position |-> IF p = "p1" THEN FarAway ELSE <<0, -2000>>,
                     alive |-> TRUE]]
    /\ mate = NoMate
    /\ \E t \in SpawnTypes : zombie = NewCombatZombie(t, <<0, 0>>)
    /\ ai = NewAI(<<0, 0>>)
    /\ out = NoOut
    /\ obs = ObsInit
    /\ lod = NewLOD
    /\ mgr = NoManager(DocumentedConfig)

TickCombat ==
    /\ updated
    /\ now + 500 <= StartTime + MaxCombatHalves * 500
    /\ now' = now + 500
    /\ updated' = FALSE
    /\ obs' = ObsEnv("env")
    /\ out' = NoOut
    /\ UNCHANGED <<events, players, mate, zombie, ai, lod, mgr>>

\* ZombiePlayer.update(): ai.update(), then processAIInputs() applies what
\* ai.getCurrentState() returns (Player.update(), which follows, is the host's)
ZombiePlayerUpdate ==
    /\ ~updated
    /\ \E off1 \in StuckOffsets, off2 \in WanderOffsets, off3 \in SteerOffsets,
          obstacle \in Obstacles :
        \E f \in {UpdateAI(ai, off1, off2, obstacle)} :
        \E r \in {GetCurrentState(Fields(f), off3)} :
            /\ updated' = TRUE
            /\ ai' = r.fields
            /\ out' = r.result
            /\ zombie' = ProcessAIInputs(zombie, r.result)
            /\ obs' = Obs("playerUpdate", ai, f) @@
                          [couldAttack |-> CanAttack(zombie),
                           lastAttackBefore |-> zombie.lastAttackTime]
            /\ UNCHANGED <<now, events, players, mate, lod, mgr>>

\* zombieAttack(target) called by the host; the history keeps the damage dealt
ZombieAttackCall ==
    \E p \in Players :
        /\ players[p].alive
        /\ zombie' = ZombieAttack(zombie, p)
        /\ obs' = ObsEnv("zombieAttack") @@
                      [target |-> p, lastAttackBefore |-> zombie.lastAttackTime,
                       dealt |-> IF ZombieAttackHits(zombie, p) THEN ZombieDamage(zombie) ELSE 0]
        /\ out' = NoOut
        /\ UNCHANGED <<now, updated, events, players, mate, ai, lod, mgr>>

NextCombat ==
    \/ TickCombat
    \/ ZombiePlayerUpdate
    \/ ZombieAttackCall
    \/ MovePlayerDamage

SpecCombat == InitCombat /\ [][NextCombat]_vars

\* the step starts an attack: processAIInputs() raises startedAttacking, or
\* zombieAttack() deals its damage
AttackStarts ==
    \/ obs'.op = "playerUpdate" /\ zombie'.startedAttacking
    \/ obs'.op = "zombieAttack" /\ obs'.dealt > 0

(***************************************************************************)
(* C34: a zombie starts an attack only when at least 1000 ms have passed   *)
(* since its last attack start.  _lastAttackTime is set to the clock by    *)
(* every attack start and by nothing else, so that it is the time of the   *)
(* last start, and a start finds it at least 1000 ms back: two attack      *)
(* starts of a zombie are at least 1000 ms apart.                          *)
(***************************************************************************)
C34_AttackCooldown ==
    [][/\ AttackStarts => /\ now - zombie.lastAttackTime >= attackCooldown
                          /\ zombie'.lastAttackTime = now'
       /\ ~AttackStarts => zombie'.lastAttackTime = zombie.lastAttackTime
       /\ zombie'.attacking = zombie'.startedAttacking
       /\ zombie'.lastAttackTime <= now']_vars

\* an attack starts exactly 1000 ms after the last one
C34_Witness ==
    /\ obs.op = "playerUpdate" /\ zombie.startedAttacking
    /\ obs.lastAttackBefore = now - attackCooldown
C34_SecondHit ==
    /\ obs.op = "zombieAttack" /\ obs.dealt > 0
    /\ obs.lastAttackBefore = now - attackCooldown
\* the AI asks for an attack during the cooldown and none starts
C34_HitRefused ==
    /\ obs.op = "zombieAttack" /\ obs.dealt = 0
    /\ WithinAttack(obs.target) /\ now - obs.lastAttackBefore = 500
C34_Refused ==
    /\ obs.op = "playerUpdate" /\ out.shouldAttack /\ ~obs.couldAttack
    /\ ~zombie.attacking /\ ~zombie.startedAttacking
    /\ now - zombie.lastAttackTime = 500

(***************************************************************************)
(* The specification of the aggro period: the zombie is evolved with any   *)
(* multiplier and damaged by the players as the clock runs.                *)
(***************************************************************************)
NextAggro ==
    \/ TickDamage
    \/ Update
    \/ Grow
    \/ Hurt

SpecAggro == InitDamage /\ [][NextAggro]_vars

(***************************************************************************)
(* C35: aggroUntil never moves earlier: every damage event and every       *)
(* evolution notification with a multiplier of at least 1 leaves           *)
(* aggroUntil at or after the value it had, so that a hit does not shorten *)
(* the aggro period an evolution has extended.                             *)
(***************************************************************************)
C35_AggroNeverShortened ==
    [][obs'.op \in {"damage", "evolve"} => ai'.aggroUntil >= ai.aggroUntil]_vars

\* what holds of the code: an event sets aggroUntil to the clock plus
\* aggroTimeout, times the multiplier if it is an evolution, whatever it was
C35_AggroRestarted ==
    [][/\ obs'.op = "damage" => ai'.aggroUntil = now + aggroTimeout
       /\ obs'.op = "evolve" =>
              ai'.aggroUntil = now + (aggroTimeout * obs'.multiplier) \div 10
       /\ obs'.op \notin {"damage", "evolve"} => ai'.aggroUntil = ai.aggroUntil]_vars
\* a hit shortens the aggro period of an evolution
C35_HitShortens ==
    obs.op = "damage" /\ ai.aggroUntil < obs.before.aggroUntil

(***************************************************************************)
(* C36: the circling timer measures continuous circling only: after a      *)
(* steering evaluation in which the agent is not Attacking within          *)
(* circlingRadius of a living non-zombie player, circlingStartTime is 0,   *)
(* so that the timeout cannot fire at the first evaluation of a new        *)
(* close-range engagement.                                                 *)
(***************************************************************************)
\* the steering evaluation of the last ZombiePlayer.update() was made with
\* the agent Attacking and a living player within circlingRadius
SteeredCircling ==
    /\ obs.mid.currentState = Attacking
    /\ \E p \in Players :
           /\ players[p].alive
           /\ CloserThan(zombie.position, players[p].position, circlingRadius)

C36_TimerOnlyWhileCircling ==
    obs.op = "zombieUpdate" /\ obs.mid.targetPosition # NoVec /\ ~SteeredCircling
        => ai.circlingStartTime = 0

\* what holds of the code: an evaluation that finds no living player within
\* separationDistance leaves the timer as it was, and one that finds such a
\* player while the agent is not Attacking leaves it at 0
C36_TimerKeptOrCleared ==
    obs.op = "zombieUpdate" /\ obs.mid.targetPosition # NoVec /\ ~SteeredCircling
        => IF \E p \in Players :
                  /\ players[p].alive
                  /\ CloserThan(zombie.position, players[p].position, separationDistance)
           THEN ai.circlingStartTime = 0
           ELSE ai.circlingStartTime = obs.mid.circlingStartTime
\* the player has left and the timer of the engagement is still running
C36_StaleTimer ==
    /\ obs.op = "zombieUpdate"
    /\ obs.mid.targetPosition # NoVec
    /\ obs.mid.currentState # Attacking
    /\ ai.circlingStartTime # 0
\* the timeout fires at the first evaluation of an engagement: the update
\* that made the agent Attacking is the one whose steering times out
C36_FiresAtOnce ==
    /\ obs.op = "zombieUpdate"
    /\ obs.before.currentState # Attacking
    /\ obs.mid.currentState = Attacking
    /\ obs.steerWandered > 0

(***************************************************************************)
(* C37: the circling-timeout escape is effective: when the steering of     *)
(* one ZombiePlayer.update() has timed out and assigned a wander target,   *)
(* the following update() leaves targetPosition at that wander target,     *)
(* also when the circled player is still in attack range, and the intent   *)
(* it returns aims at the wander target.                                   *)
(***************************************************************************)
C37_EscapeKeepsWanderTarget ==
    obs.op = "zombieUpdate" /\ obs.prevEscapedTo # NoVec
        => /\ obs.mid.targetPosition = obs.prevEscapedTo
           /\ out.target = obs.prevEscapedTo

\* what holds of the code: the update() that follows the escape finds the
\* agent Attacking and sets the goal anew from the nearest player, to the
\* tactical attack position if the player is in attack range and to the
\* player's position, with the agent Hunting, if not
C37_EscapeOverwritten ==
    obs.op = "zombieUpdate" /\ obs.prevEscapedTo # NoVec
        => /\ obs.before.currentState = Attacking
           /\ obs.before.targetPosition = obs.prevEscapedTo
           /\ obs.nearest # NoPlayer
           /\ obs.mid.target = obs.nearest
           /\ IF obs.inRange
              THEN /\ obs.mid.currentState = Attacking
                   /\ obs.mid.targetPosition = GetTacticalAttackPosition(obs.nearest)
              ELSE /\ obs.mid.currentState = Hunting
                   /\ obs.mid.targetPosition = players[obs.nearest].position
\* the circled player is still in attack range at the update after the
\* escape, and the goal is the attack position again
C37_StandoffResumed ==
    /\ obs.op = "zombieUpdate"
    /\ obs.prevEscapedTo # NoVec
    /\ obs.inRange
    /\ obs.mid.currentState = Attacking
    /\ obs.mid.targetPosition # obs.prevEscapedTo
    /\ out.target # obs.prevEscapedTo
    /\ out.shouldAttack

(***************************************************************************)
(* C38: evolutionLevel takes the values 0..3 only and never decreases, it  *)
(* rises by one at each scheduled event, and every live zombie the manager *)
(* tracks carries the multiplier EvolutionMultipliers.health at the capped *)
(* level, a zombie spawned after an evolution event as well.               *)
(***************************************************************************)
LevelMultiplier == EvolutionHealth[Min(mgr.evolutionLevel, 3) + 1]

C38_LevelAndMultiplierButFailedSpawns ==
    /\ [](/\ mgr.evolutionLevel \in 0..3
          /\ OnSchedule => mgr.evolutionLevel = Cardinality(Elapsed)
          /\ \A z \in LiveZombies : mgr.pool[z].evolutionMultiplier \in {10, LevelMultiplier}
          /\ obs.op = "spawn" /\ mgr.trace.returned # 0 =>
                 mgr.pool[mgr.trace.returned].evolutionMultiplier = LevelMultiplier)
    /\ [][/\ mgr'.evolutionLevel \in {mgr.evolutionLevel, mgr.evolutionLevel + 1}
          /\ mgr'.evolutionLevel # mgr.evolutionLevel => obs'.op = "evolution"
          /\ obs'.op = "evolution" =>
                 \A z \in LiveZombies' : mgr'.pool[z].evolutionMultiplier = LevelMultiplier'
          /\ obs'.op \notin {"evolution", "spawn", "match"} =>
                 \A z \in LiveZombies' : mgr'.pool[z] = mgr.pool[z]]_vars
\* a zombie spawned after an evolution event carries the multiplier
C38_SpawnedEvolved ==
    /\ obs.op = "spawn" /\ mgr.trace.returned # 0
    /\ mgr.evolutionLevel = 2
    /\ mgr.pool[mgr.trace.returned].evolutionMultiplier = 16
\* a live zombie is tracked without the multiplier of the level
C38_LeftBehind ==
    /\ mgr.evolutionLevel > 0
    /\ \E z \in LiveZombies : mgr.pool[z].evolutionMultiplier # LevelMultiplier

====
